---- MODULE Spec2Model ----
(***************************************************************************)
(* Compliance Sentinel.                                                    *)
(*                                                                         *)
(* Spec          the rule lifecycle: ingestion runs (reconcile_version,    *)
(*               insert_rule, supersede_rule) and the approve / deprecate  *)
(*               routes, over the authoritative rule store and the         *)
(*               similarity index.                                         *)
(* ReconcileSpec reconcile_version on its own, for every answer of the     *)
(*               index.                                                    *)
(* ScanSpec      one enforcement scan (_run_scan and the three nodes of    *)
(*               the enforcement graph) of a registered connection.        *)
(* EvalSpec      evaluate_condition_chain on its own, for every condition, *)
(*               region and behaviour of the collaborators.                *)
(*                                                                         *)
(* Similarity scores are carried in hundredths (0.75 is 75, 0.92 is 92).   *)
(* Failures of the collaborators are inputs of the steps that call them:   *)
(* a flush may fail with an integrity error (always, on a duplicate        *)
(* primary key) or with another database error, and every call to the      *)
(* similarity index may raise.  The COMMIT statement itself is taken to    *)
(* succeed once the flush has.                                             *)
(***************************************************************************)
EXTENDS Integers, Sequences, FiniteSets, TLC

\* ---------------------------------------------------------------- bounds
MaxRules == 3
MaxBatch == 2

RuleIds == 1..MaxRules
NoRule == 0

\* ------------------------------------------------------------- constants
SimilarityHigh == 92
SimilarityMid == 75

\* The scores an index answer may carry: the two thresholds and their neighbours.
Scores == {SimilarityMid - 1, SimilarityMid, SimilarityHigh - 1, SimilarityHigh}

\* A row of the rules table, status ACTIVE, DEPRECATED or DRAFT; Absent
\* stands for "no row with this rule_id".
Absent == [status |-> "NONE", superseded_by |-> NoRule, version |-> 0, rule_text |-> ""]

\* rule_text is "ingested" (the text the decomposition gave) or "edited".
Rule(st) == [status |-> st, superseded_by |-> NoRule, version |-> 1,
             rule_text |-> "ingested"]

VARIABLES
    store,          \* committed rows of the rules table, by rule_id
    index,          \* similarity index: payload status of each point, "NONE" if no point
    sessRows,       \* rows written (flushed) in the run's open transaction
    sessDirty,      \* rule ids written in the run's open transaction
    sessState,      \* "active" | "deactive" (a flush failed and nobody rolled back)
    pc,             \* position of the ingestion run
    todo,           \* number of decomposed_rules still to persist
    cur,            \* rule being persisted: its id and what is used of the decision
    persisted_ids,  \* node_persist_rules: persisted_ids
    errors,         \* node_persist_rules: errors (failed rule id and what was raised)
    ret,            \* outcome of the last insert_rule / supersede_rule call
    run_committed,  \* rule ids whose INSERT the run under way has committed
    lineage,        \* <<old, new>> for every committed supersession
    rvNearest,      \* reconcile_version alone: the answer of find_nearest_rule
    rvResult,       \* reconcile_version alone: what it returned
    scanPc,         \* position of the enforcement scan
    db_conn,        \* the database connection the scan is for
    relevant_rules, \* ScanState: relevant_rules
    pending,        \* (condition, column) pairs the check loop has still to evaluate
    outcomes,       \* what each evaluated pair gave: "evidence" | "none" | "raised",
                    \* or "failed" when its strategy ended with status "error"
    violations_found, \* ScanState: violations_found
    scan_errors,    \* ScanState: errors
    scan_results,   \* ScanState: scan_results (ids of the persisted violations)
    violations,     \* committed rows of the violations table
    audit_logs,     \* committed rows of the audit log
    scanSession,    \* the scan's session: "active" | "deactive"
    to_persist,     \* node_persist_violations: violations the loop has still to go through
    scanTx,         \* rows written (flushed) in the scan's open transaction
    langgraph_checkpoint_id, \* ScanState: langgraph_checkpoint_id
    evIn,           \* evaluate_condition_chain alone: condition, region, collaborators
    evOut,          \* evaluate_condition_chain alone: what the call did
    last_calls,     \* what the evaluation of the latest pair asked of the target
                    \* database and of the oracles, in order
    thread,         \* committed row of the scan's OrchestratorThread
    mtIn,           \* check_schema_map_match alone: schema_map and condition
    mtOut,          \* check_schema_map_match alone: the matches of each call so far
    race,           \* two ingestion runs at once: each run's position, rule,
                    \* decision and the rows of its open transaction
    scans           \* two scans at once: the violation id sequence and each
                    \* scan's position, graph state and session

runState == <<store, index, sessRows, sessDirty, sessState, pc, todo, cur,
              persisted_ids, errors, ret, lineage, run_committed>>
reconcileVars == <<rvNearest, rvResult>>
scanVars == <<scanPc, db_conn, relevant_rules, pending, outcomes, violations_found,
              scan_errors, scan_results, violations, audit_logs, scanSession,
              to_persist, scanTx, langgraph_checkpoint_id, thread, last_calls>>
evalVars == <<evIn, evOut>>
matchVars == <<mtIn, mtOut>>
raceVars == <<race, scans>>
outsideRun == <<reconcileVars, scanVars, evalVars, matchVars, raceVars>>
outsideScan == <<runState, reconcileVars, evalVars, matchVars, raceVars>>
outsideRace == <<sessRows, sessDirty, sessState, pc, todo, cur, persisted_ids, errors, ret,
                 run_committed, reconcileVars, scanVars, evalVars, matchVars, scans>>
outsideScans == <<runState, reconcileVars, evalVars, matchVars, race,
                  scanPc, db_conn, relevant_rules, pending, outcomes, violations_found,
                  scan_errors, scan_results, scanSession, to_persist, scanTx,
                  langgraph_checkpoint_id, thread, last_calls>>
vars == <<runState, reconcileVars, scanVars, evalVars, matchVars, raceVars>>

\* ------------------------------------------------------- reconciliation
None == [rule_id |-> NoRule, score |-> -1]

\* find_nearest_rule: the top-1 point of the whole collection (no status
\* filter), None when the collection has no point.
find_nearest_rule(idx) ==
    IF \A r \in RuleIds : idx[r] = "NONE"
    THEN {None}
    ELSE {[rule_id |-> r, score |-> s] : r \in {x \in RuleIds : idx[x] # "NONE"}, s \in Scores}

reconcile_version_gt(nearest) ==
    IF nearest = None THEN [action |-> "new", existing_rule_id |-> NoRule, score |-> -1]
    ELSE IF nearest.score > SimilarityHigh
         THEN [action |-> "human_review", existing_rule_id |-> nearest.rule_id, score |-> nearest.score]
    ELSE IF nearest.score > SimilarityMid
         THEN [action |-> "supersede", existing_rule_id |-> nearest.rule_id, score |-> nearest.score]
    ELSE [action |-> "new", existing_rule_id |-> NoRule, score |-> -1]

reconcile_version(nearest) ==
    IF nearest = None THEN [action |-> "new", existing_rule_id |-> NoRule, score |-> -1]
    ELSE IF nearest.score >= SimilarityHigh
         THEN [action |-> "human_review", existing_rule_id |-> nearest.rule_id, score |-> nearest.score]
    ELSE IF nearest.score >= SimilarityMid
         THEN [action |-> "supersede", existing_rule_id |-> nearest.rule_id, score |-> nearest.score]
    ELSE [action |-> "new", existing_rule_id |-> NoRule, score |-> -1]

NoResult == [action |-> "none", existing_rule_id |-> NoRule, score |-> -1]

\* ---------------------------------------------------------- the session
\* What the run's session reads: its own uncommitted writes over the store.
View(r) == IF r \in sessDirty THEN sessRows[r] ELSE store[r]

NoRows == [r \in RuleIds |-> Absent]

\* The rules a COMMIT inserts: the rows of the open transaction that the
\* store does not have yet.
CommittedInserts == {r \in sessDirty : store[r] = Absent}

\* A COMMIT that makes nothing visible.
Committed_nothing == store

\* COMMIT: every row written in the open transaction becomes visible.
Committed == [r \in RuleIds |-> View(r)]

\* The supersessions a COMMIT makes visible: <<old, new>> for every
\* deprecated row of the open transaction that points forward.
CommittedLinks ==
    lineage \cup {<<o, sessRows[o].superseded_by>> :
                     o \in {r \in sessDirty : sessRows[r].superseded_by # NoRule}}

NoCur == [rule_id |-> NoRule, action |-> "none", existing_rule_id |-> NoRule]
NoRet == [op |-> "none", action |-> "none", old |-> NoRule, new |-> NoRule, result |-> "none", at |-> "none"]

Range(q) == {q[i] : i \in 1..Len(q)}

\* The rule_id of the next decomposed rule.  Rule ids are opaque names, so
\* the ids no rule uses yet are taken in increasing order; an id that is in
\* use (in the store, in the session, or earlier in the upload) may come
\* again at any time.
NextRuleIds ==
    LET known == {r \in RuleIds : store[r] # Absent \/ r \in sessDirty}
                    \cup Range(persisted_ids) \cup {x.rule_id : x \in Range(errors)}
    IN  known \cup {r \in RuleIds \ known : \A x \in RuleIds \ known : r <= x}

\* No call of reconcile_version on its own is under way.
ReconcileIdle ==
    /\ rvNearest = None
    /\ rvResult = NoResult

\* No ingestion run is under way.
RunIdle ==
    /\ sessRows = NoRows
    /\ sessDirty = {}
    /\ sessState = "active"
    /\ pc = "idle"
    /\ todo = 0
    /\ cur = NoCur
    /\ persisted_ids = <<>>
    /\ errors = <<>>
    /\ ret = NoRet
    /\ lineage = {}
    /\ run_committed = {}

\* No evaluate_condition_chain call of its own is under way.
EvalIdle ==
    /\ evIn = << >>
    /\ evOut = << >>

\* error_detail NULL
NoErrorDetail == [kind |-> "none", errors |-> << >>]

\* No OrchestratorThread row: the scan was not started by trigger_scan.
NoThread == [status |-> "NONE", error_detail |-> NoErrorDetail]

\* No check_schema_map_match call of its own is under way.
MatchIdle ==
    /\ mtIn = << >>
    /\ mtOut = << >>

\* No pair of concurrent ingestion runs is under way.
RaceIdle == race = << >> /\ scans = << >>

\* checkpoint_id = None
NoCheckpoint == "None"

NoConn == [id |-> 0, server_region |-> "", schema_map |-> << >>, last_scanned_at |-> "never"]

\* No scan is under way.
ScanIdle ==
    /\ scanPc = "idle"
    /\ db_conn = NoConn
    /\ relevant_rules = << >>
    /\ pending = << >>
    /\ outcomes = << >>
    /\ violations_found = << >>
    /\ scan_errors = << >>
    /\ scan_results = << >>
    /\ violations = << >>
    /\ audit_logs = << >>
    /\ scanSession = "active"
    /\ to_persist = << >>
    /\ scanTx = << >>
    /\ langgraph_checkpoint_id = NoCheckpoint
    /\ thread = NoThread
    /\ last_calls = << >>

Init ==
    /\ ReconcileIdle
    /\ ScanIdle
    /\ EvalIdle
    /\ MatchIdle
    /\ RaceIdle
    /\ store = NoRows
    /\ index = [r \in RuleIds |-> "NONE"]
    /\ RunIdle

\* -------------------------------------------------- node_persist_rules
\* A lifecycle call (or reconcile_version) has ended: what it did is kept
\* in ret until node_persist_rules has recorded it.
Raised(op, at) ==
    /\ pc' = "returned"
    /\ ret' = [op |-> op, action |-> cur.action, old |-> cur.existing_rule_id,
               new |-> cur.rule_id, result |-> "raised", at |-> at]
    /\ cur' = NoCur
    /\ UNCHANGED <<todo, persisted_ids, errors>>

Returned(op, result) ==
    /\ pc' = "returned"
    /\ ret' = [op |-> op, action |-> cur.action, old |-> cur.existing_rule_id,
               new |-> cur.rule_id, result |-> result, at |-> "end"]
    /\ cur' = NoCur
    /\ UNCHANGED <<todo, persisted_ids, errors>>

\* The rest of the loop body.  The call returned (a rule, or None): the rule
\* id is listed as persisted.  It raised: the except branch records the
\* error and the loop moves on; nothing is rolled back.
PersistRecord ==
    /\ pc = "returned"
    /\ IF ret.result = "raised"
       THEN errors' = Append(errors, [rule_id |-> ret.new, e |-> ret.at])
            /\ UNCHANGED persisted_ids
       ELSE persisted_ids' = Append(persisted_ids, ret.new) /\ UNCHANGED errors
    /\ todo' = todo - 1
    /\ ret' = NoRet
    /\ pc' = "persist"
    /\ UNCHANGED <<store, index, sessRows, sessDirty, sessState, cur, lineage>>
    /\ UNCHANGED outsideRun
    /\ UNCHANGED run_committed

\* A flush that fails: the database transaction is rolled back and the
\* session stays unusable until somebody calls rollback().
FlushFailed ==
    /\ sessRows' = NoRows
    /\ sessDirty' = {}
    /\ sessState' = "deactive"

\* _run_ingestion: a new upload starts a run with its own session.
StartRun ==
    /\ pc = "idle"
    /\ pc' = "persist"
    /\ \E k \in 0..MaxBatch : todo' = k
    /\ UNCHANGED <<store, index, sessRows, sessDirty, sessState, cur,
                   persisted_ids, errors, ret, lineage>>
    /\ UNCHANGED outsideRun
    /\ UNCHANGED run_committed

\* reconcile_version for the next rule of the upload.
Reconcile ==
    /\ pc = "persist"
    /\ todo > 0
    /\ \E n \in NextRuleIds, nearest \in find_nearest_rule(index) :
          LET reconcile == reconcile_version(nearest)
          IN  cur' = [rule_id |-> n, action |-> reconcile.action,
                      existing_rule_id |-> IF reconcile.action = "supersede"
                                           THEN reconcile.existing_rule_id ELSE NoRule]
    /\ pc' = "reconciled"
    /\ ret' = NoRet
    /\ UNCHANGED <<store, index, sessRows, sessDirty, sessState, todo,
                   persisted_ids, errors, lineage>>
    /\ UNCHANGED outsideRun
    /\ UNCHANGED run_committed

\* find_nearest_rule raises (the index cannot be reached).
ReconcileRaises ==
    /\ pc = "persist"
    /\ todo > 0
    /\ pc' = "returned"
    /\ \E n \in NextRuleIds :
          ret' = [NoRet EXCEPT !.op = "reconcile", !.new = n, !.result = "raised",
                               !.at = "find_nearest_rule"]
    /\ UNCHANGED <<todo, cur, persisted_ids, errors>>
    /\ UNCHANGED <<store, index, sessRows, sessDirty, sessState, lineage>>
    /\ UNCHANGED outsideRun
    /\ UNCHANGED run_committed

\* The Rule that node_persist_rules builds: DRAFT for human_review.
new_rule(action) == Rule(IF action = "human_review" THEN "DRAFT" ELSE "ACTIVE")

\* ---------------------------------------------------------- insert_rule
\* db.add(rule); db.commit(): the flush and the commit of everything the
\* session has written so far.  dbError: a database error other than a
\* duplicate key.
InsertCommit(dbError) ==
    /\ pc = "reconciled"
    /\ cur.action \in {"new", "human_review"}
    /\ LET n == cur.rule_id
       IN  IF sessState = "deactive"
           THEN /\ Raised("insert", "session")
                /\ UNCHANGED <<store, sessRows, sessDirty, sessState>>
           ELSE IF View(n) # Absent \/ dbError
           THEN /\ FlushFailed
                /\ Raised("insert", "commit")
                /\ UNCHANGED store
           ELSE /\ store' = [Committed EXCEPT ![n] = new_rule(cur.action)]
                /\ sessRows' = NoRows
                /\ sessDirty' = {}
                /\ pc' = "ins_committed"
                /\ UNCHANGED <<sessState, todo, cur, persisted_ids, errors, ret>>
    /\ lineage' = IF sessState = "active" /\ View(cur.rule_id) = Absent /\ ~dbError
                  THEN CommittedLinks ELSE lineage
    /\ run_committed' = IF sessState = "active" /\ View(cur.rule_id) = Absent /\ ~dbError
                        THEN run_committed \cup CommittedInserts \cup {cur.rule_id}
                        ELSE run_committed
    /\ UNCHANGED index
    /\ UNCHANGED outsideRun

upsert_rule_skipDraft(idx, n, st) == IF st = "DRAFT" THEN idx ELSE [idx EXCEPT ![n] = st]

\* upsert_rule: the point of rule n is written with the rule's status.
upsert_rule(idx, n, st) == [idx EXCEPT ![n] = st]

\* upsert_rule(rule_id, ..., status = rule.status) after the commit.
InsertUpsert(indexOk) ==
    /\ pc = "ins_committed"
    /\ LET n == cur.rule_id
       IN  IF indexOk
           THEN /\ index' = upsert_rule(index, n, new_rule(cur.action).status)
                /\ Returned("insert", "returned")
           ELSE /\ Raised("insert", "upsert")
                /\ UNCHANGED index
    /\ UNCHANGED <<store, sessRows, sessDirty, sessState, lineage>>
    /\ UNCHANGED outsideRun
    /\ UNCHANGED run_committed

\* ------------------------------------------------------- supersede_rule
\* Step 1: db.add(new_rule); db.flush().  An IntegrityError (duplicate
\* rule_id) is caught: db.rollback(), return None, and the caller lists the
\* rule as persisted.  Any other exception leaves supersede_rule uncaught.
SupersedeInsert(dbError) ==
    /\ pc = "reconciled"
    /\ cur.action = "supersede"
    /\ LET n == cur.rule_id
           old == cur.existing_rule_id
       IN  IF sessState = "deactive"
           THEN /\ Raised("supersede", "session")
                /\ UNCHANGED <<sessRows, sessDirty, sessState>>
           ELSE IF View(n) # Absent
           THEN /\ sessRows' = NoRows
                /\ sessDirty' = {}
                /\ sessState' = "active"
                /\ Returned("supersede", "returned_none")
           ELSE IF dbError
           THEN /\ FlushFailed
                /\ Raised("supersede", "insert")
           ELSE /\ sessRows' = [sessRows EXCEPT ![n] = new_rule(cur.action)]
                /\ sessDirty' = sessDirty \cup {n}
                /\ pc' = "sup_inserted"
                /\ UNCHANGED <<sessState, todo, cur, persisted_ids, errors, ret>>
    /\ UNCHANGED <<store, index, lineage>>
    /\ UNCHANGED outsideRun
    /\ UNCHANGED run_committed

DeprecatedBy_noLink(row, n) == [row EXCEPT !.status = "DEPRECATED"]

\* old.status = DEPRECATED; old.superseded_by = new_rule.rule_id
DeprecatedBy(row, n) == [row EXCEPT !.status = "DEPRECATED", !.superseded_by = n]

\* Step 2, first half: old = get_rule_by_id(...); if old: mark it and flush.
SupersedeDeprecate(dbError) ==
    /\ pc = "sup_inserted"
    /\ LET n == cur.rule_id
           old == cur.existing_rule_id
       IN  IF View(old) = Absent
           THEN /\ pc' = "sup_flushed"
                /\ UNCHANGED <<sessRows, sessDirty, sessState, todo, cur,
                               persisted_ids, errors, ret>>
           ELSE IF dbError
           THEN /\ FlushFailed
                /\ Raised("supersede", "deprecate")
           ELSE /\ sessRows' = [sessRows EXCEPT ![old] = DeprecatedBy(View(old), n)]
                /\ sessDirty' = sessDirty \cup {old}
                /\ pc' = "sup_deprecated"
                /\ UNCHANGED <<sessState, todo, cur, persisted_ids, errors, ret>>
    /\ UNCHANGED <<store, index, lineage>>
    /\ UNCHANGED outsideRun
    /\ UNCHANGED run_committed

\* The point of the deprecated rule is taken out of the collection.
deprecate_rule_in_vector_store_delete(idx, r) == [idx EXCEPT ![r] = "NONE"]

\* deprecate_rule_in_vector_store: set_payload changes the status of an
\* existing point and creates none.
deprecate_rule_in_vector_store(idx, r) ==
    [idx EXCEPT ![r] = IF @ = "NONE" THEN @ ELSE "DEPRECATED"]

\* Step 2, second half: deprecate_rule_in_vector_store(old_rule_id), called
\* before the commit.
SupersedeIndexDeprecate(indexOk) ==
    /\ pc = "sup_deprecated"
    /\ LET n == cur.rule_id
           old == cur.existing_rule_id
       IN  IF indexOk
           THEN /\ index' = deprecate_rule_in_vector_store(index, old)
                /\ pc' = "sup_flushed"
                /\ UNCHANGED <<todo, cur, persisted_ids, errors, ret>>
           ELSE /\ Raised("supersede", "index_deprecate")
                /\ UNCHANGED index
    /\ UNCHANGED <<store, sessRows, sessDirty, sessState, lineage>>
    /\ UNCHANGED outsideRun
    /\ UNCHANGED run_committed

\* Step 3: db.commit(); db.refresh(new_rule).
SupersedeCommit ==
    /\ pc = "sup_flushed"
    /\ store' = Committed
    /\ sessRows' = NoRows
    /\ sessDirty' = {}
    /\ lineage' = CommittedLinks
    /\ run_committed' = run_committed \cup CommittedInserts
    /\ pc' = "sup_committed"
    /\ UNCHANGED <<index, sessState, todo, cur, persisted_ids, errors, ret>>
    /\ UNCHANGED outsideRun

\* Step 4: upsert_rule(new_rule ...); return new_rule.
SupersedeUpsert(indexOk) ==
    /\ pc = "sup_committed"
    /\ LET n == cur.rule_id
           old == cur.existing_rule_id
       IN  IF indexOk
           THEN /\ index' = upsert_rule(index, n, new_rule(cur.action).status)
                /\ Returned("supersede", "returned")
           ELSE /\ Raised("supersede", "upsert")
                /\ UNCHANGED index
    /\ UNCHANGED <<store, sessRows, sessDirty, sessState, lineage>>
    /\ UNCHANGED outsideRun
    /\ UNCHANGED run_committed

\* ------------------------------------------------------- _run_ingestion
\* After the graph: the job record is updated and committed on the run's
\* session, which commits whatever that session still holds; on a session
\* left deactive the commit raises and the except branch gives up.
FinishRun ==
    /\ pc = "persist"
    /\ todo = 0
    /\ store' = IF sessState = "active" THEN Committed ELSE store
    /\ sessRows' = NoRows
    /\ sessDirty' = {}
    /\ lineage' = IF sessState = "active" THEN CommittedLinks ELSE lineage
    /\ run_committed' = IF sessState = "active" THEN run_committed \cup CommittedInserts
                        ELSE run_committed
    /\ pc' = "finished"
    /\ UNCHANGED <<index, sessState, todo, cur, persisted_ids, errors, ret>>
    /\ UNCHANGED outsideRun

\* The run is over: its result and its session are dropped.
CloseRun ==
    /\ pc = "finished"
    /\ pc' = "idle"
    /\ persisted_ids' = <<>>
    /\ errors' = <<>>
    /\ run_committed' = {}
    /\ sessState' = "active"
    /\ UNCHANGED <<store, index, sessRows, sessDirty, todo, cur, ret, lineage>>
    /\ UNCHANGED outsideRun

\* -------------------------------------------------------- policy routes
\* The routes commit on their own session.  A row written in the run's
\* open transaction is locked until that transaction ends, and a route
\* taken in the middle of a lifecycle call changes nothing the call reads,
\* so the routes are taken between the calls.
RouteMayRun(r) == pc \in {"idle", "persist"} /\ r \notin sessDirty

\* PATCH /policies/rules/{rule_id}/approve: 400 unless the rule is DRAFT.
approve_draft_rule(r) ==
    /\ RouteMayRun(r)
    /\ store[r].status = "DRAFT"
    /\ store' = [store EXCEPT ![r].status = "ACTIVE"]
    /\ UNCHANGED <<index, sessRows, sessDirty, sessState, pc, todo, cur,
                   persisted_ids, errors, ret, lineage>>
    /\ UNCHANGED outsideRun
    /\ UNCHANGED run_committed

\* PATCH /policies/rules/{rule_id}/deprecate: any rule, whatever its status
\* (on a rule that is DEPRECATED already the route changes nothing).
deprecate_rule(r) ==
    /\ RouteMayRun(r)
    /\ store[r] # Absent
    /\ store[r].status # "DEPRECATED"
    /\ store' = [store EXCEPT ![r].status = "DEPRECATED"]
    /\ UNCHANGED <<index, sessRows, sessDirty, sessState, pc, todo, cur,
                   persisted_ids, errors, ret, lineage>>
    /\ UNCHANGED outsideRun
    /\ UNCHANGED run_committed

\* PATCH /policies/rules/{rule_id} with a rule_text in the body: the text
\* of the rule is replaced, whatever the status of the rule.
update_rule(r, rule_text) ==
    /\ RouteMayRun(r)
    /\ store[r] # Absent
    /\ store' = [store EXCEPT ![r].rule_text = rule_text]
    /\ UNCHANGED <<index, sessRows, sessDirty, sessState, pc, todo, cur,
                   persisted_ids, errors, ret, lineage>>
    /\ UNCHANGED outsideRun
    /\ UNCHANGED run_committed

Next ==
    \/ StartRun
    \/ Reconcile
    \/ ReconcileRaises
    \/ PersistRecord
    \/ \E dbError \in BOOLEAN : InsertCommit(dbError)
    \/ \E indexOk \in BOOLEAN : InsertUpsert(indexOk)
    \/ \E dbError \in BOOLEAN : SupersedeInsert(dbError)
    \/ \E dbError \in BOOLEAN : SupersedeDeprecate(dbError)
    \/ \E indexOk \in BOOLEAN : SupersedeIndexDeprecate(indexOk)
    \/ SupersedeCommit
    \/ \E indexOk \in BOOLEAN : SupersedeUpsert(indexOk)
    \/ FinishRun
    \/ CloseRun
    \/ \E r \in RuleIds : approve_draft_rule(r)
    \/ \E r \in RuleIds : deprecate_rule(r)
    \/ \E r \in RuleIds : update_rule(r, "edited")

Spec == Init /\ [][Next]_vars

\* ====================================================== enforcement scan
\* Strings that are searched or lower-cased are sequences of characters.
S_PII == <<"P", "I", "I">>
S_pii_contact == <<"p", "i", "i", "_", "c", "o", "n", "t", "a", "c", "t">>
S_PII_contact == <<"P", "I", "I", "_", "c", "o", "n", "t", "a", "c", "t">>
S_Financial == <<"F", "i", "n", "a", "n", "c", "i", "a", "l">>
S_financial == <<"f", "i", "n", "a", "n", "c", "i", "a", "l">>

UpperCase == <<"A", "B", "C", "D", "E", "F", "G", "H", "I", "J", "K", "L", "M",
               "N", "O", "P", "Q", "R", "S", "T", "U", "V", "W", "X", "Y", "Z">>
LowerCase == <<"a", "b", "c", "d", "e", "f", "g", "h", "i", "j", "k", "l", "m",
               "n", "o", "p", "q", "r", "s", "t", "u", "v", "w", "x", "y", "z">>

\* str.lower()
lower(s) ==
    [i \in 1..Len(s) |->
        IF \E k \in 1..Len(UpperCase) : UpperCase[k] = s[i]
        THEN LowerCase[CHOOSE k \in 1..Len(UpperCase) : UpperCase[k] = s[i]]
        ELSE s[i]]

\* a in b (substring)
IsIn(a, b) == \E i \in 0..(Len(b) - Len(a)) : SubSeq(b, i + 1, i + Len(a)) = a

RECURSIVE Flatten(_)
Flatten(qq) == IF qq = <<>> THEN <<>> ELSE Head(qq) \o Flatten(Tail(qq))

\* rule_obj.violation_conditions of the rule with this id (what the
\* decomposition produced for the rule's text).
Condition(id, category, trigger, type) ==
    [condition_id |-> id, data_category |-> category, trigger |-> trigger,
     check_type |-> type, sql_check_template |-> type = "sql",
     regex_pattern |-> type = "regex"]

violation_conditions(r) ==
    CASE r = 1 -> << Condition("vc-01", S_PII, "storage_outside_eu", "metadata"),
                     Condition("vc-02", S_pii_contact, "no_masking", "regex") >>
      [] r = 2 -> << Condition("vc-01", S_Financial, "no_encryption", "sql") >>
      [] r = 3 -> << Condition("vc-01", S_financial, "retention_exceeded", "llm_fallback") >>
      [] OTHER -> << >>

\* database_connections rows: server_region and the schema_map built at
\* registration, {table: {column: {compliance_category, ...}}} in insertion order.
Column(name, category) == [column |-> name, compliance_category |-> category]

DatabaseConnections ==
    { [id |-> 1, server_region |-> "us-east-1", last_scanned_at |-> "never",
       schema_map |-> << [table |-> "users", columns |-> << Column("email", S_PII_contact) >>],
                         [table |-> "orders", columns |-> << Column("card", S_Financial) >>] >>],
      [id |-> 2, server_region |-> "EU-WEST-1", last_scanned_at |-> "never",
       schema_map |-> << [table |-> "users", columns |-> << Column("email", S_PII_contact),
                                                            Column("phone", S_PII_contact) >>] >>],
      [id |-> 3, server_region |-> "", last_scanned_at |-> "never", schema_map |-> << >>] }

\* Rule corpora a scan may meet: the rows of the store and the payload
\* status of their points, each one a state the lifecycle above reaches.
Corpus(rows, idx) ==
    [store |-> [r \in RuleIds |-> IF r <= Len(rows) THEN rows[r] ELSE Absent],
     index |-> [r \in RuleIds |-> IF r <= Len(idx) THEN idx[r] ELSE "NONE"]]

Corpora ==
    { Corpus(<< >>, << >>),
      Corpus(<< Rule("ACTIVE") >>, << "ACTIVE" >>),
      Corpus(<< Rule("ACTIVE") >>, << "NONE" >>),
      Corpus(<< DeprecatedBy(Rule("ACTIVE"), 2), Rule("ACTIVE") >>, << "DEPRECATED", "ACTIVE" >>),
      Corpus(<< Rule("ACTIVE"), Rule("DRAFT") >>, << "ACTIVE", "DRAFT" >>),
      Corpus(<< Rule("ACTIVE"), Rule("ACTIVE") >>, << "ACTIVE", "DRAFT" >>),
      Corpus(<< Rule("DEPRECATED"), Rule("ACTIVE") >>, << "ACTIVE", "ACTIVE" >>),
      Corpus(<< Rule("ACTIVE"), Rule("ACTIVE") >>, << "ACTIVE", "ACTIVE" >>),
      Corpus(<< Rule("ACTIVE"), Rule("ACTIVE"), Rule("ACTIVE") >>, << "ACTIVE", "NONE", "ACTIVE" >>) }

\* ------------------------------------------------------ check strategies
\* What the collaborators do during one evaluate_condition_chain call:
\*   raises   an exception escapes the chain (a tool wrapper rejecting its
\*            input, or anything else the strategies do not catch)
\*   first    attempt 1 of the SQL check: "rows" | "empty" | "error"
\*   rewrite  the oracle's rewrite: "changed" | "unchanged" | "raises"
\*   retry    the rewritten SQL: "rows" | "empty" | "error"
\*   fetch_ok / samples   the sample query of the regex check, each sampled
\*            value "null", "match" (the pattern is found) or "nomatch"
\*   llm_ok / is_violation / confidence   the classification oracle;
\*            confidence in ten-thousandths
MaxSamples == 4

SampleLists == UNION {[1..n -> {"null", "match", "nomatch"}] : n \in 0..MaxSamples}

Confidences == {0, 5994, 5996, 6000, 10000}

NoEnv == [raises |-> FALSE, first |-> "empty", rewrite |-> "unchanged", retry |-> "empty",
          fetch_ok |-> TRUE, samples |-> << >>,
          llm_ok |-> TRUE, is_violation |-> FALSE, confidence |-> 0]

Envs(check_type) ==
    {[NoEnv EXCEPT !.raises = TRUE]} \cup
    CASE check_type = "sql" ->
            {[NoEnv EXCEPT !.first = a, !.rewrite = b, !.retry = c] :
                a \in {"rows", "empty", "error"},
                b \in {"changed", "unchanged", "raises"},
                c \in {"rows", "empty", "error"}}
      [] check_type = "regex" ->
            {[NoEnv EXCEPT !.fetch_ok = FALSE]} \cup
            {[NoEnv EXCEPT !.samples = q] : q \in SampleLists}
      [] check_type = "llm_fallback" ->
            {[NoEnv EXCEPT !.llm_ok = FALSE]} \cup
            {[NoEnv EXCEPT !.is_violation = v, !.confidence = c] :
                v \in BOOLEAN, c \in Confidences}
      [] OTHER -> {NoEnv}

\* _try_execute; keys: the keys of the dict it returns
try_execute(outcome) ==
    IF outcome = "error"
    THEN [status |-> "error", rows |-> FALSE,
          keys |-> {"status", "table", "column", "error", "sql"}]
    ELSE [status |-> "ok", rows |-> outcome = "rows",
          keys |-> {"status", "table", "column", "rows", "sql"}]

\* The second execution of run_sql_check happens whatever the rewrite gave.
run_sql_check_retryAlways(e) ==
    LET result == try_execute(e.first)
    IN  IF result.status = "ok"
        THEN [status |-> result.status, rows |-> result.rows, keys |-> result.keys,
              calls |-> << "execute" >>]
        ELSE LET retry == try_execute(e.retry)
             IN  [status |-> retry.status, rows |-> retry.rows,
                  keys |-> retry.keys \cup {"sql_rewritten", "rewrite_reason"},
                  calls |-> << "execute", "rewrite",
                               IF e.rewrite = "changed" THEN "execute_rewritten"
                               ELSE "execute" >>]

\* The oracle is asked for a rewrite before anything is executed.
run_sql_check_rewriteFirst(e) ==
    IF e.rewrite = "changed"
    THEN LET retry == try_execute(e.retry)
         IN  [status |-> retry.status, rows |-> retry.rows,
              keys |-> retry.keys \cup {"sql_rewritten", "rewrite_reason"},
              calls |-> << "rewrite", "execute_rewritten" >>]
    ELSE LET result == try_execute(e.first)
         IN  [status |-> result.status, rows |-> result.rows, keys |-> result.keys,
              calls |-> << "rewrite", "execute" >>]

\* run_sql_check: attempt 1; on an error one rewrite by the oracle and, if
\* the rewrite changed the SQL, one retry whose result is returned.  calls:
\* what it asked of the database and of the oracle, in order.
run_sql_check(e) ==
    LET result == try_execute(e.first)
    IN  IF result.status = "ok"
        THEN [status |-> result.status, rows |-> result.rows, keys |-> result.keys,
              calls |-> << "execute" >>]
        ELSE IF e.rewrite = "changed"
        THEN LET retry == try_execute(e.retry)
             IN  [status |-> retry.status, rows |-> retry.rows,
                  keys |-> retry.keys \cup {"sql_rewritten", "rewrite_reason"},
                  calls |-> << "execute", "rewrite", "execute_rewritten" >>]
        ELSE [status |-> result.status, rows |-> result.rows, keys |-> result.keys,
              calls |-> << "execute", "rewrite" >>]

\* The threshold of run_regex_check taken as exclusive.
run_regex_check_strict(e) ==
    IF ~e.fetch_ok THEN [status |-> "error", triggered |-> FALSE, calls |-> << "sample" >>]
    ELSE LET samples == SelectSeq(e.samples, LAMBDA x : x # "null")
             match_count == Cardinality({i \in 1..Len(samples) : samples[i] = "match"})
         IN  [status |-> "ok",
              triggered |-> IF samples = << >> THEN FALSE
                            ELSE 2 * match_count > Len(samples),
              calls |-> << "sample" >>]

\* run_regex_check: triggered when at least half of the non-null samples match.
run_regex_check(e) ==
    IF ~e.fetch_ok THEN [status |-> "error", triggered |-> FALSE, calls |-> << "sample" >>]
    ELSE LET samples == SelectSeq(e.samples, LAMBDA x : x # "null")
             match_count == Cardinality({i \in 1..Len(samples) : samples[i] = "match"})
         IN  [status |-> "ok",
              triggered |-> IF samples = << >> THEN FALSE
                            ELSE 2 * match_count >= Len(samples),
              calls |-> << "sample" >>]

EU_REGIONS ==
    {"eu-west-1", "eu-west-2", "eu-west-3", "eu-central-1", "eu-north-1",
     "eu-south-1", "eu-central-2", "eu-south-2", "europe-west1", "europe-west2",
     "europe-west3", "europe-west4", "europe-north1", "europe-central2"}

region_lower(server_region) ==
    IF server_region = "EU-WEST-1" THEN "eu-west-1" ELSE server_region

\* The region check of check_metadata_condition under another trigger name.
check_metadata_condition_anyTrigger(server_region, condition) ==
    [triggered |-> region_lower(server_region) \notin EU_REGIONS]

check_metadata_condition(server_region, condition) ==
    [triggered |-> /\ condition.trigger = "storage_outside_eu"
                   /\ region_lower(server_region) \notin EU_REGIONS]

\* llm_fallback_confidence_threshold, in thousandths
LlmFallbackConfidenceThreshold == 600

\* round(confidence, 3): ten-thousandths to the nearest thousandth
round3(c) == (c + 5) \div 10

\* A failed classification taken as a certain violation.
llm_fallback_classify_failOpen(e) ==
    IF e.llm_ok THEN [is_violation |-> e.is_violation, confidence |-> round3(e.confidence),
                      calls |-> << "classify" >>]
    ELSE [is_violation |-> TRUE, confidence |-> 1000, calls |-> << "classify" >>]

llm_fallback_classify(e) ==
    IF e.llm_ok THEN [is_violation |-> e.is_violation, confidence |-> round3(e.confidence),
                      calls |-> << "classify" >>]
    ELSE [is_violation |-> FALSE, confidence |-> 0, calls |-> << "classify" >>]

NoEvidence == [kind |-> "none", check_method |-> "none", condition_matched |-> "", raw |-> {}]

\* _build_evidence; raw: the keys of the raw_result it is handed
build_evidence(condition, raw_result, method) ==
    [kind |-> "evidence", check_method |-> method, condition_matched |-> condition.trigger,
     raw |-> raw_result]

\* condition.get("check_type", "sql")
check_type_of(condition) ==
    IF condition.check_type = "MISSING" THEN "sql" ELSE condition.check_type

\* What one call of evaluate_condition_chain did: what it returned
\* (kind, check_method), the strategy it ran ("none" when it ran none), the
\* status of that strategy's result and the strategy's calls.
Ran(evidence, strategy, status, calls) ==
    [kind |-> evidence.kind, check_method |-> evidence.check_method,
     condition_matched |-> evidence.condition_matched, raw |-> evidence.raw,
     strategy |-> strategy, status |-> status, calls |-> calls]

\* evaluate_condition_chain: the strategy is chosen by check_type; evidence
\* when the strategy is triggered, None otherwise.
evaluate_condition_chain(server_region, condition, e) ==
    LET check_type == check_type_of(condition)
    IN  IF e.raises THEN Ran([NoEvidence EXCEPT !.kind = "raised"], "none", "raised", << >>)
        ELSE IF check_type = "metadata"
        THEN Ran(IF check_metadata_condition(server_region, condition).triggered
                 THEN build_evidence(condition, {"server_region", "eu_regions_checked"},
                                     "metadata") ELSE NoEvidence,
                 "metadata", "ok", << >>)
        ELSE IF check_type = "sql" /\ condition.sql_check_template
        THEN LET result == run_sql_check(e)
             IN  Ran(IF result.status = "ok" /\ result.rows
                     THEN build_evidence(condition, {"rows"}, "sql") ELSE NoEvidence,
                     "sql", result.status, result.calls)
        ELSE IF check_type = "regex" /\ condition.regex_pattern
        THEN LET result == run_regex_check(e)
             IN  Ran(IF result.triggered
                     THEN build_evidence(condition,
                              {"status", "table", "column", "match_ratio",
                               "sample_count", "triggered"}, "regex")
                     ELSE NoEvidence,
                     "regex", result.status, result.calls)
        ELSE IF check_type = "llm_fallback"
        THEN LET result == llm_fallback_classify(e)
             IN  Ran(IF result.is_violation
                        /\ result.confidence >= LlmFallbackConfidenceThreshold
                     THEN build_evidence(condition, {"is_violation", "confidence", "reasoning"},
                                         "llm_fallback") ELSE NoEvidence,
                     "llm_fallback", "ok", result.calls)
        ELSE Ran(NoEvidence, "none", "ok", << >>)

\* The match of check_schema_map_match taken as equality of the categories.
check_schema_map_match_exact(schema_map, condition) ==
    LET all == Flatten([t \in 1..Len(schema_map) |->
                   [c \in 1..Len(schema_map[t].columns) |->
                       [table |-> schema_map[t].table,
                        column |-> schema_map[t].columns[c].column,
                        category |-> schema_map[t].columns[c].compliance_category]]])
    IN  SelectSeq(all, LAMBDA m : lower(condition.data_category) = lower(m.category))

\* check_schema_map_match: every column of every table of the schema map
\* whose category contains the condition's data_category, case ignored.
check_schema_map_match(schema_map, condition) ==
    LET all == Flatten([t \in 1..Len(schema_map) |->
                   [c \in 1..Len(schema_map[t].columns) |->
                       [table |-> schema_map[t].table,
                        column |-> schema_map[t].columns[c].column,
                        category |-> schema_map[t].columns[c].compliance_category]]])
    IN  SelectSeq(all, LAMBDA m : IsIn(lower(condition.data_category), lower(m.category)))

\* ------------------------------------------------------------- the scan
\* The graph with an edge from filter_relevant_tables to persist_violations.
add_edge_skipChecks(node) ==
    CASE node = "START" -> "filter_relevant_tables"
      [] node = "filter_relevant_tables" -> "persist_violations"
      [] node = "run_enforcement_checks" -> "persist_violations"
      [] OTHER -> "END"

\* build_enforcement_graph: the one edge that leaves each node.
add_edge(node) ==
    CASE node = "START" -> "filter_relevant_tables"
      [] node = "filter_relevant_tables" -> "run_enforcement_checks"
      [] node = "run_enforcement_checks" -> "persist_violations"
      [] OTHER -> "END"

\* Where a node begins: its first step.
node_entry(node) ==
    CASE node = "filter_relevant_tables" -> "start"
      [] node = "run_enforcement_checks" -> "fetch"
      [] node = "persist_violations" -> "persist"
      [] OTHER -> "END"

\* The commit writes the new rows in place of the table's rows.
insert_rows_replace(table, rows) == rows

\* db.add and db.commit: INSERT of the new rows after the table's rows.
insert_rows(table, rows) == table \o rows

\* log_event: the audit record it adds and commits; it is given no
\* checkpoint id and its detail names no rule.
log_event(event_type, entity_type, entity_id) ==
    [event_type |-> event_type, entity_type |-> entity_type, entity_id |-> entity_id,
     rule_id |-> NoRule, langgraph_checkpoint_id |-> NoCheckpoint]

\* top_k of retrieve_relevant_rules
max_relevant_rules_per_table == 12

\* retrieve_relevant_rules: the top_k points with payload status ACTIVE,
\* best first; which order the scores give is up to the embeddings.
retrieve_relevant_rules(idx, top_k) ==
    LET active == {r \in RuleIds : idx[r] = "ACTIVE"}
        n == Cardinality(active)
        k == IF n < top_k THEN n ELSE top_k
    IN  {q \in [1..k -> active] : \A i, j \in 1..k : q[i] = q[j] => i = j}

\* The (condition, column) pairs node_run_enforcement_checks goes through,
\* in its order: for each relevant_rules entry whose rule is in rule_cache,
\* for each condition of the rule, for each match of the condition.
PairsOf(entry, rule_cache, schema_map) ==
    IF entry.rule_id \notin rule_cache THEN << >>
    ELSE LET conds == violation_conditions(entry.rule_id)
         IN  Flatten([c \in 1..Len(conds) |->
                 LET matches == check_schema_map_match(schema_map, conds[c])
                 IN  [m \in 1..Len(matches) |->
                         [rule_id |-> entry.rule_id, matched_table |-> entry.matched_table,
                          condition |-> conds[c], table |-> matches[m].table,
                          column |-> matches[m].column]]])

Worklist(entries, rule_cache, schema_map) ==
    Flatten([k \in 1..Len(entries) |-> PairsOf(entries[k], rule_cache, schema_map)])

\* langgraph_checkpoint_id of the initial state: None from _run_scan (its
\* callers pass no checkpoint_id), the thread id from _run_enforcement_scan.
Checkpoints == {NoCheckpoint, "thread-1"}

\* _run_scan is called for a registered connection, on some rule corpus.
ScanInit ==
    /\ \E k \in Corpora : store = k.store /\ index = k.index
    /\ RunIdle
    /\ ReconcileIdle
    /\ EvalIdle
    /\ MatchIdle
    /\ RaceIdle
    /\ scanPc = node_entry(add_edge("START"))
    /\ db_conn \in DatabaseConnections
    /\ relevant_rules = << >>
    /\ pending = << >>
    /\ outcomes = << >>
    /\ violations_found = << >>
    /\ scan_errors = << >>
    /\ scan_results = << >>
    /\ violations = << >>
    /\ scanSession = "active"
    /\ to_persist = << >>
    /\ scanTx = << >>
    /\ last_calls = << >>
    /\ \/ /\ langgraph_checkpoint_id = NoCheckpoint
          /\ thread = NoThread
          /\ audit_logs = << >>
       \/ /\ langgraph_checkpoint_id \in Checkpoints \ {NoCheckpoint}
          /\ thread = [status |-> "RUNNING", error_detail |-> NoErrorDetail]
          /\ audit_logs = << log_event("SCAN_STARTED", "workflow", langgraph_checkpoint_id) >>

\* node_filter_relevant_tables: one index query per table of the schema
\* map; nothing catches a query that raises.
FilterRelevantTables(indexOk) ==
    /\ scanPc = "start"
    /\ LET schema_map == db_conn.schema_map
       IN  IF schema_map # << >> /\ ~indexOk
           THEN /\ scanPc' = "raised"
                /\ UNCHANGED relevant_rules
           ELSE /\ \E hits \in [1..Len(schema_map) ->
                                   retrieve_relevant_rules(index, max_relevant_rules_per_table)] :
                      relevant_rules' =
                          Flatten([t \in 1..Len(schema_map) |->
                              [h \in 1..Len(hits[t]) |->
                                  [rule_id |-> hits[t][h],
                                   matched_table |-> schema_map[t].table]]])
                /\ scanPc' = node_entry(add_edge("filter_relevant_tables"))
    /\ UNCHANGED <<db_conn, pending, outcomes, violations_found, scan_errors,
                   scan_results, violations, audit_logs, scanSession,
                   to_persist, scanTx, langgraph_checkpoint_id, thread>>
    /\ UNCHANGED outsideScan
    /\ UNCHANGED last_calls

\* rule_cache: the distinct rule ids of relevant_rules that the store has.
RuleCache(entries) ==
    {r \in RuleIds : \E i \in 1..Len(entries) :
                        entries[i].rule_id = r /\ store[r] # Absent}

\* The error string of a check that raised names the entry's table, the
\* column and the rule.
CheckError(p) ==
    [kind |-> "check", table |-> p.matched_table, column |-> p.column, rule_id |-> p.rule_id]

\* node_run_enforcement_checks, first loop: get_rule_by_id for every
\* distinct rule id, outside any try.
FetchRules(dbOk) ==
    /\ scanPc = "fetch"
    /\ IF relevant_rules # << >> /\ ~dbOk
       THEN /\ scanPc' = "raised"
            /\ UNCHANGED pending
       ELSE /\ pending' = Worklist(relevant_rules, RuleCache(relevant_rules),
                                    db_conn.schema_map)
            /\ scanPc' = "checks"
    /\ UNCHANGED <<db_conn, relevant_rules, outcomes, violations_found, scan_errors,
                   scan_results, violations, audit_logs, scanSession,
                   to_persist, scanTx, langgraph_checkpoint_id, thread>>
    /\ UNCHANGED outsideScan
    /\ UNCHANGED last_calls

RestAfterRaise_abort(work) == << >>

\* The except branch is inside the loop over the matches: the loop goes on
\* with the pairs that are left.
RestAfterRaise(work) == Tail(work)

\* One pass of the innermost loop: evaluate_condition_chain for one pair.
EvalPair ==
    /\ scanPc = "checks"
    /\ pending # << >>
    /\ \E e \in Envs(check_type_of(Head(pending).condition)) :
       LET p == Head(pending)
           evidence == evaluate_condition_chain(db_conn.server_region, p.condition, e)
       IN  /\ outcomes' = Append(outcomes, IF evidence.status = "error" THEN "failed"
                                            ELSE evidence.kind)
           /\ last_calls' = evidence.calls
           /\ IF evidence.kind = "raised"
              THEN /\ scan_errors' = Append(scan_errors, CheckError(p))
                   /\ pending' = RestAfterRaise(pending)
                   /\ UNCHANGED violations_found
              ELSE /\ pending' = Tail(pending)
                   /\ violations_found' =
                         IF evidence.kind = "evidence"
                         THEN Append(violations_found,
                                 [table_name |-> p.table, column_name |-> p.column,
                                  rule_id |-> p.rule_id,
                                  condition_matched |-> evidence.condition_matched,
                                  condition_id |-> p.condition.condition_id,
                                  check_method |-> evidence.check_method,
                                  db_connection_id |-> db_conn.id])
                         ELSE violations_found
                   /\ UNCHANGED scan_errors
    /\ UNCHANGED <<scanPc, db_conn, relevant_rules, scan_results, violations,
                   audit_logs, scanSession, to_persist, scanTx, langgraph_checkpoint_id, thread>>
    /\ UNCHANGED outsideScan

\* node_run_enforcement_checks returns; node_persist_violations starts its
\* loop over violations_found.
ChecksReturn ==
    /\ scanPc = "checks"
    /\ pending = << >>
    /\ scanPc' = node_entry(add_edge("run_enforcement_checks"))
    /\ to_persist' = violations_found
    /\ last_calls' = << >>
    /\ UNCHANGED <<db_conn, relevant_rules, pending, outcomes, violations_found,
                   scan_errors, scan_results, violations, audit_logs, scanSession,
                   scanTx, langgraph_checkpoint_id, thread>>
    /\ UNCHANGED outsideScan

\* The error node_persist_violations appends for a violation it could not
\* persist.  e: what was raised ("flush", "commit", or "session" when the
\* session refused the write because of an earlier failure); entry: the
\* position of the violation in violations_found.
PersistError(v_data, e) ==
    [kind |-> "persist", table |-> v_data.table_name, column |-> v_data.column_name,
     rule_id |-> v_data.rule_id, e |-> e,
     entry |-> Len(violations_found) - Len(to_persist) + 1]

\* The except branch ends the loop.
RestAfterPersistError_break(work) == << >>

\* The except branch is inside the loop over violations_found.
RestAfterPersistError(work) == Tail(work)

\* persist_violation up to its flush: the violation is added and flushed,
\* which gives it its id.  A flush that fails rolls the transaction back
\* and leaves the session unusable: no one calls rollback(), so on that
\* session every later flush raises without reaching the database.
PersistFlush(dbOk) ==
    /\ scanPc = "persist"
    /\ to_persist # << >>
    /\ LET v_data == Head(to_persist)
       IN  IF scanSession = "active" /\ dbOk
           THEN /\ scanTx' = << [table |-> "violations", id |-> Len(violations) + 1,
                                 row |-> v_data] >>
                /\ scanPc' = "persist_commit"
                /\ UNCHANGED <<scan_errors, scanSession, to_persist>>
           ELSE /\ scan_errors' = Append(scan_errors,
                       PersistError(v_data, IF scanSession = "active" THEN "flush"
                                            ELSE "session"))
                /\ scanSession' = "deactive"
                /\ to_persist' = RestAfterPersistError(to_persist)
                /\ UNCHANGED <<scanPc, scanTx>>
    /\ UNCHANGED <<db_conn, relevant_rules, pending, outcomes, violations_found,
                   scan_results, violations, audit_logs, langgraph_checkpoint_id, thread>>
    /\ UNCHANGED outsideScan
    /\ UNCHANGED last_calls

\* The audit record written without the scan's checkpoint id.
AuditLogFor_noCheckpoint(v, checkpoint_id) ==
    [event_type |-> "VIOLATION_DETECTED", entity_type |-> "violation",
     entity_id |-> v.id, rule_id |-> v.row.rule_id,
     langgraph_checkpoint_id |-> NoCheckpoint]

\* The audit record persist_violation builds for the flushed violation v.
AuditLogFor(v, checkpoint_id) ==
    [event_type |-> "VIOLATION_DETECTED", entity_type |-> "violation",
     entity_id |-> v.id, rule_id |-> v.row.rule_id,
     langgraph_checkpoint_id |-> checkpoint_id]

\* The rows of one table among the rows of a transaction.
RowsOf(tx, table) == SelectSeq(tx, LAMBDA x : x.table = table)

\* persist_violation after its flush: the audit record is added and one
\* commit writes it and the violation; persisted gets the violation's id.
\* A commit that fails (the INSERT of the audit record fails) rolls both
\* back and leaves the session unusable.
PersistCommit(dbOk) ==
    /\ scanPc = "persist_commit"
    /\ LET v == Head(scanTx)
           tx == Append(scanTx, [table |-> "audit_logs",
                                 row |-> AuditLogFor(v, langgraph_checkpoint_id)])
           committed_violations == RowsOf(tx, "violations")
           committed_audits == RowsOf(tx, "audit_logs")
       IN  IF dbOk
           THEN /\ violations' = violations \o
                       [i \in 1..Len(committed_violations) |->
                           [id |-> committed_violations[i].id,
                            row |-> committed_violations[i].row]]
                /\ audit_logs' = insert_rows(audit_logs,
                       [i \in 1..Len(committed_audits) |-> committed_audits[i].row])
                /\ scan_results' = Append(scan_results, v.id)
                /\ to_persist' = Tail(to_persist)
                /\ UNCHANGED <<scan_errors, scanSession>>
           ELSE /\ scan_errors' = Append(scan_errors, PersistError(v.row, "commit"))
                /\ scanSession' = "deactive"
                /\ to_persist' = RestAfterPersistError(to_persist)
                /\ UNCHANGED <<violations, audit_logs, scan_results>>
    /\ scanTx' = << >>
    /\ scanPc' = "persist"
    /\ UNCHANGED <<db_conn, relevant_rules, pending, outcomes, violations_found,
                   langgraph_checkpoint_id, thread>>
    /\ UNCHANGED outsideScan
    /\ UNCHANGED last_calls

\* The end of the scan writes the connection's row anew, without its schema map.
set_last_scanned_at_resetMap(conn) ==
    [conn EXCEPT !.last_scanned_at = "now", !.schema_map = << >>]

\* db_conn.last_scanned_at = datetime.utcnow()
set_last_scanned_at(conn) == [conn EXCEPT !.last_scanned_at = "now"]

\* The graph has ended; the entry point sets last_scanned_at and commits on
\* the session the nodes used, outside any try.
RunScanCommit(dbOk) ==
    /\ scanPc = "persist"
    /\ to_persist = << >>
    /\ langgraph_checkpoint_id = NoCheckpoint
    /\ scanPc' = IF scanSession = "active" /\ dbOk THEN "done" ELSE "raised"
    /\ db_conn' = IF scanSession = "active" /\ dbOk THEN set_last_scanned_at(db_conn)
                  ELSE db_conn
    /\ UNCHANGED <<relevant_rules, pending, outcomes, violations_found,
                   scan_errors, scan_results, violations, audit_logs, scanSession,
                   to_persist, scanTx, langgraph_checkpoint_id, thread>>
    /\ UNCHANGED outsideScan
    /\ UNCHANGED last_calls

\* errors[:5]
first5(q) == SubSeq(q, 1, IF Len(q) < 5 THEN Len(q) ELSE 5)

\* _run_enforcement_scan: FAILED with the first errors as error_detail when
\* there are errors and nothing was persisted, COMPLETED otherwise.
thread_outcome(errors_, scan_results_) ==
    IF errors_ # << >> /\ scan_results_ = << >>
    THEN [status |-> "FAILED",
          error_detail |-> [kind |-> "errors", errors |-> first5(errors_)]]
    ELSE [status |-> "COMPLETED", error_detail |-> NoErrorDetail]

\* _run_enforcement_scan after graph.invoke returned: the thread's status
\* is set and committed on the session the nodes used.  A commit that
\* raises is caught by the except branch.
ThreadStatusCommit(dbOk) ==
    /\ scanPc = "persist"
    /\ to_persist = << >>
    /\ langgraph_checkpoint_id # NoCheckpoint
    /\ IF scanSession = "active" /\ dbOk
       THEN /\ thread' = thread_outcome(scan_errors, scan_results)
            /\ scanPc' = "thread_updated"
            /\ UNCHANGED scanSession
       ELSE /\ scanPc' = "raised"
            /\ scanSession' = "deactive"
            /\ UNCHANGED thread
    /\ UNCHANGED <<db_conn, relevant_rules, pending, outcomes, violations_found,
                   scan_errors, scan_results, violations, audit_logs,
                   to_persist, scanTx, langgraph_checkpoint_id>>
    /\ UNCHANGED outsideScan
    /\ UNCHANGED last_calls

\* _run_enforcement_scan: last_scanned_at is set and committed.
LastScannedCommit(dbOk) ==
    /\ scanPc = "thread_updated"
    /\ IF dbOk
       THEN /\ scanPc' = "log_completed"
            /\ db_conn' = set_last_scanned_at(db_conn)
            /\ UNCHANGED scanSession
       ELSE /\ scanPc' = "raised"
            /\ scanSession' = "deactive"
            /\ UNCHANGED db_conn
    /\ UNCHANGED <<relevant_rules, pending, outcomes, violations_found,
                   scan_errors, scan_results, violations, audit_logs,
                   to_persist, scanTx, langgraph_checkpoint_id, thread>>
    /\ UNCHANGED outsideScan
    /\ UNCHANGED last_calls

\* _run_enforcement_scan: log_event(SCAN_COMPLETED) adds and commits.
LogScanCompleted(dbOk) ==
    /\ scanPc = "log_completed"
    /\ IF dbOk
       THEN /\ audit_logs' = insert_rows(audit_logs,
                   << log_event("SCAN_COMPLETED", "workflow", langgraph_checkpoint_id) >>)
            /\ scanPc' = "done"
            /\ UNCHANGED scanSession
       ELSE /\ scanPc' = "raised"
            /\ scanSession' = "deactive"
            /\ UNCHANGED audit_logs
    /\ UNCHANGED <<db_conn, relevant_rules, pending, outcomes, violations_found,
                   scan_errors, scan_results, violations,
                   to_persist, scanTx, langgraph_checkpoint_id, thread>>
    /\ UNCHANGED outsideScan
    /\ UNCHANGED last_calls

\* _run_enforcement_scan, except branch: whatever was raised inside the try
\* (by the graph or by a commit after it) sets the thread FAILED with the
\* exception as error_detail and commits on the same session.  Nothing
\* catches this commit when it raises: the exception leaves the task and
\* the thread's row stays as it was last committed.
ScanCrashed(dbOk) ==
    /\ scanPc = "raised"
    /\ langgraph_checkpoint_id # NoCheckpoint
    /\ IF scanSession = "active" /\ dbOk
       THEN /\ thread' = [status |-> "FAILED",
                            error_detail |-> [kind |-> "exception", errors |-> << >>]]
            /\ scanPc' = "log_failed"
            /\ UNCHANGED scanSession
       ELSE /\ scanPc' = "escaped"
            /\ scanSession' = "deactive"
            /\ UNCHANGED thread
    /\ UNCHANGED <<db_conn, relevant_rules, pending, outcomes, violations_found,
                   scan_errors, scan_results, violations, audit_logs,
                   to_persist, scanTx, langgraph_checkpoint_id>>
    /\ UNCHANGED outsideScan
    /\ UNCHANGED last_calls

\* _run_enforcement_scan, except branch: log_event(SCAN_FAILED).
LogScanFailed(dbOk) ==
    /\ scanPc = "log_failed"
    /\ IF dbOk
       THEN /\ audit_logs' = insert_rows(audit_logs,
                   << log_event("SCAN_FAILED", "workflow", langgraph_checkpoint_id) >>)
            /\ scanPc' = "failed"
            /\ UNCHANGED scanSession
       ELSE /\ scanPc' = "escaped"
            /\ scanSession' = "deactive"
            /\ UNCHANGED audit_logs
    /\ UNCHANGED <<db_conn, relevant_rules, pending, outcomes, violations_found,
                   scan_errors, scan_results, violations,
                   to_persist, scanTx, langgraph_checkpoint_id, thread>>
    /\ UNCHANGED outsideScan
    /\ UNCHANGED last_calls

ScanNext ==
    \/ \E indexOk \in BOOLEAN : FilterRelevantTables(indexOk)
    \/ \E dbOk \in BOOLEAN : FetchRules(dbOk)
    \/ EvalPair
    \/ ChecksReturn
    \/ \E dbOk \in BOOLEAN : PersistFlush(dbOk)
    \/ \E dbOk \in BOOLEAN : PersistCommit(dbOk)
    \/ \E dbOk \in BOOLEAN : RunScanCommit(dbOk)
    \/ \E dbOk \in BOOLEAN : ThreadStatusCommit(dbOk)
    \/ \E dbOk \in BOOLEAN : LastScannedCommit(dbOk)
    \/ \E dbOk \in BOOLEAN : LogScanCompleted(dbOk)
    \/ \E dbOk \in BOOLEAN : ScanCrashed(dbOk)
    \/ \E dbOk \in BOOLEAN : LogScanFailed(dbOk)

ScanSpec == ScanInit /\ [][ScanNext]_vars

\* ------------------------------------------- a scan that may be cancelled
\* cancel_scan: the route commits CANCELLED on the thread's row, on its own
\* session, whatever the row's status; 404 when there is no such thread.
cancel_scan ==
    /\ thread # NoThread
    /\ thread' = [thread EXCEPT !.status = "CANCELLED"]
    /\ UNCHANGED <<scanPc, db_conn, relevant_rules, pending, outcomes, violations_found,
                   scan_errors, scan_results, violations, audit_logs, scanSession,
                   to_persist, scanTx, langgraph_checkpoint_id, last_calls>>
    /\ UNCHANGED outsideScan

CancelNext ==
    \/ ScanNext
    \/ cancel_scan

CancelSpec == ScanInit /\ [][CancelNext]_vars

\* ---------------------------------- evaluate_condition_chain on its own
CheckTypes == {"metadata", "sql", "regex", "llm_fallback"}

Triggers == {"storage_outside_eu", "storage_outside_region", "no_adequacy_decision",
             "no_encryption"}

\* Conditions as rules.violation_conditions may hold them: check_type one of
\* the four, absent ("MISSING") or some other string; template and pattern
\* present or not.
EvalConditions ==
    [condition_id : {"vc-01"}, data_category : {S_PII}, trigger : Triggers,
     check_type : CheckTypes \cup {"MISSING", "manual"},
     sql_check_template : BOOLEAN, regex_pattern : BOOLEAN]

ServerRegions == {"us-east-1", "eu-west-1", "EU-WEST-1", "eu-central-1", ""}

EvalInit ==
    /\ \E c \in EvalConditions, g \in ServerRegions :
          \E e \in Envs(check_type_of(c)) :
             evIn = [condition |-> c, server_region |-> g, e |-> e]
    /\ evOut = << >>
    /\ MatchIdle
    /\ RaceIdle
    /\ store = NoRows
    /\ index = [r \in RuleIds |-> "NONE"]
    /\ RunIdle
    /\ ReconcileIdle
    /\ ScanIdle

EvalCall ==
    /\ evIn # << >>
    /\ evOut = << >>
    /\ evOut' = evaluate_condition_chain(evIn.server_region, evIn.condition, evIn.e)
    /\ UNCHANGED <<evIn, runState, reconcileVars, scanVars, matchVars, raceVars>>

EvalNext == EvalCall

EvalSpec == EvalInit /\ [][EvalNext]_vars

\* ------------------------------------ check_schema_map_match on its own
S_PII_gov_id == <<"P", "I", "I", "_", "g", "o", "v", "_", "i", "d">>
S_None == <<"N", "o", "n", "e">>
S_Health == <<"H", "e", "a", "l", "t", "h">>

MaxColumns == 2

\* compliance_category values a classification gives (schema_agent.py)
Categories == {S_PII_contact, S_PII_gov_id, S_Financial, S_None}

\* data_category values of a condition; << >> when the condition has none
DataCategories == {S_PII, S_pii_contact, S_financial, S_Health, S_None, << >>}

ColumnLists ==
    UNION {{[c \in 1..n |-> Column(IF c = 1 THEN "c1" ELSE IF c = 2 THEN "c2" ELSE "c3", q[c])] :
               q \in [1..n -> Categories]} : n \in 1..MaxColumns}

\* Schema maps of no, one or two tables.
SchemaMaps ==
    {<< >>} \cup
    {<< [table |-> "users", columns |-> a] >> : a \in ColumnLists} \cup
    {<< [table |-> "users", columns |-> a], [table |-> "orders", columns |-> b] >> :
        a \in ColumnLists, b \in ColumnLists}

MatchInit ==
    /\ \E m \in SchemaMaps, d \in DataCategories :
          mtIn = [schema_map |-> m,
                  condition |-> Condition("vc-01", d, "no_encryption", "sql")]
    /\ mtOut = << >>
    /\ store = NoRows
    /\ index = [r \in RuleIds |-> "NONE"]
    /\ RunIdle
    /\ ReconcileIdle
    /\ ScanIdle
    /\ EvalIdle
    /\ RaceIdle

\* One call of check_schema_map_match; it is made twice on the same inputs.
MatchCall ==
    /\ mtIn # << >>
    /\ Len(mtOut) < 2
    /\ mtOut' = Append(mtOut, check_schema_map_match(mtIn.schema_map, mtIn.condition))
    /\ UNCHANGED <<mtIn, runState, reconcileVars, scanVars, evalVars, raceVars>>

MatchNext == MatchCall

MatchSpec == MatchInit /\ [][MatchNext]_vars

\* ------------------------------------- two ingestion runs at the same time
\* Two uploads are ingested by two background tasks, each with its own
\* session, while the store holds one ACTIVE rule.  Each run persists one
\* rule; the rows a run has flushed are visible to that run alone until its
\* commit, and a row updated in an open transaction is locked against the
\* other run's update until that transaction ends.
RaceRuns == {1, 2}

RaceInit ==
    /\ store = [r \in RuleIds |-> IF r = 1 THEN Rule("ACTIVE") ELSE Absent]
    /\ index = [r \in RuleIds |-> IF r = 1 THEN "ACTIVE" ELSE "NONE"]
    /\ race = [p \in RaceRuns |->
                 [pc |-> "start", rule_id |-> p + 1, action |-> "none",
                  existing_rule_id |-> NoRule, tx |-> NoRows]]
    /\ scans = << >>
    /\ RunIdle
    /\ ReconcileIdle
    /\ ScanIdle
    /\ EvalIdle
    /\ MatchIdle

\* reconcile_version for the run's rule.
RaceReconcile(p) ==
    /\ race[p].pc = "start"
    /\ \E nearest \in find_nearest_rule(index) :
          LET reconcile == reconcile_version(nearest)
          IN  race' = [race EXCEPT ![p].pc = "reconciled",
                                   ![p].action = reconcile.action,
                                   ![p].existing_rule_id = reconcile.existing_rule_id]
    /\ UNCHANGED <<store, index, lineage>>
    /\ UNCHANGED outsideRace

\* insert_rule: db.add(rule); db.commit().
RaceInsert(p) ==
    /\ race[p].pc = "reconciled"
    /\ race[p].action \in {"new", "human_review"}
    /\ store' = [store EXCEPT ![race[p].rule_id] = new_rule(race[p].action)]
    /\ race' = [race EXCEPT ![p].pc = "committed"]
    /\ UNCHANGED <<index, lineage>>
    /\ UNCHANGED outsideRace

\* supersede_rule, step 1: db.add(new_rule); db.flush().
RaceSupersedeInsert(p) ==
    /\ race[p].pc = "reconciled"
    /\ race[p].action = "supersede"
    /\ race' = [race EXCEPT ![p].pc = "sup_inserted",
                            ![p].tx[race[p].rule_id] = new_rule(race[p].action)]
    /\ UNCHANGED <<store, index, lineage>>
    /\ UNCHANGED outsideRace

\* supersede_rule, step 2: old = get_rule_by_id(...) with no lock and no
\* look at old.status; the row is marked and flushed.  The UPDATE waits
\* while the other run holds the row in its open transaction.
RaceSupersedeDeprecate(p) ==
    /\ race[p].pc = "sup_inserted"
    /\ LET old == race[p].existing_rule_id
           row == IF race[p].tx[old] # Absent THEN race[p].tx[old] ELSE store[old]
       IN  IF row = Absent
           THEN race' = [race EXCEPT ![p].pc = "sup_flushed"]
           ELSE /\ \A q \in RaceRuns \ {p} : race[q].tx[old] = Absent
                /\ race' = [race EXCEPT ![p].pc = "sup_deprecated",
                                        ![p].tx[old] = DeprecatedBy(row, race[p].rule_id)]
    /\ UNCHANGED <<store, index, lineage>>
    /\ UNCHANGED outsideRace

\* supersede_rule, step 2: deprecate_rule_in_vector_store(old_rule_id).
RaceIndexDeprecate(p) ==
    /\ race[p].pc = "sup_deprecated"
    /\ index' = deprecate_rule_in_vector_store(index, race[p].existing_rule_id)
    /\ race' = [race EXCEPT ![p].pc = "sup_flushed"]
    /\ UNCHANGED <<store, lineage>>
    /\ UNCHANGED outsideRace

\* supersede_rule, step 3: db.commit().
RaceCommit(p) ==
    /\ race[p].pc = "sup_flushed"
    /\ store' = [r \in RuleIds |-> IF race[p].tx[r] # Absent THEN race[p].tx[r] ELSE store[r]]
    /\ lineage' = lineage \cup
                     {<<o, race[p].tx[o].superseded_by>> :
                         o \in {r \in RuleIds : /\ race[p].tx[r] # Absent
                                                /\ race[p].tx[r].superseded_by # NoRule}}
    /\ race' = [race EXCEPT ![p].pc = "committed", ![p].tx = NoRows]
    /\ UNCHANGED index
    /\ UNCHANGED outsideRace

\* insert_rule and supersede_rule, after the commit: upsert_rule.
RaceUpsert(p) ==
    /\ race[p].pc = "committed"
    /\ index' = upsert_rule(index, race[p].rule_id, new_rule(race[p].action).status)
    /\ race' = [race EXCEPT ![p].pc = "done"]
    /\ UNCHANGED <<store, lineage>>
    /\ UNCHANGED outsideRace

RaceNext ==
    \E p \in RaceRuns :
        \/ RaceReconcile(p)
        \/ RaceInsert(p)
        \/ RaceSupersedeInsert(p)
        \/ RaceSupersedeDeprecate(p)
        \/ RaceIndexDeprecate(p)
        \/ RaceCommit(p)
        \/ RaceUpsert(p)

RaceSpec == RaceInit /\ [][RaceNext]_vars

\* ------------------------------------------------ two scans at the same time
\* Two scans of two registered connections run as two background tasks.
\* Each task has its own session and its own graph state; the violations
\* and audit_logs tables and the rule corpus are shared.
ScanIds == {1, 2}

\* The connection each of the two scans is for.
ConnOf(s) == CHOOSE c \in DatabaseConnections : c.id = s

\* The graph state is built from the first registered connection's map.
initial_state_firstMap(conn) ==
    [pc |-> "start", db_conn |-> conn,
     db_connection_id |-> conn.id, server_region |-> conn.server_region,
     schema_map |-> ConnOf(1).schema_map,
     relevant_rules |-> << >>, pending |-> << >>, scan_results |-> << >>,
     violations_found |-> << >>, errors |-> << >>,
     to_persist |-> << >>, tx |-> << >>, session |-> "active"]

\* _run_scan: the graph state holds this connection's id, region and
\* schema map and empty lists; the session is the task's own.
initial_state(conn) ==
    [pc |-> "start", db_conn |-> conn,
     db_connection_id |-> conn.id, server_region |-> conn.server_region,
     schema_map |-> conn.schema_map,
     relevant_rules |-> << >>, pending |-> << >>, scan_results |-> << >>,
     violations_found |-> << >>, errors |-> << >>,
     to_persist |-> << >>, tx |-> << >>, session |-> "active"]

\* The rule corpora the two scans run on.
SharedCorpora ==
    { Corpus(<< Rule("ACTIVE") >>, << "ACTIVE" >>),
      Corpus(<< DeprecatedBy(Rule("ACTIVE"), 2), Rule("ACTIVE") >>, << "DEPRECATED", "ACTIVE" >>) }

ScansInit ==
    /\ \E k \in SharedCorpora : store = k.store /\ index = k.index
    /\ scans = [seq |-> 0, job |-> [s \in ScanIds |-> initial_state(ConnOf(s))]]
    /\ race = << >>
    /\ RunIdle
    /\ ReconcileIdle
    /\ ScanIdle
    /\ EvalIdle
    /\ MatchIdle

\* node_filter_relevant_tables and the first loop of
\* node_run_enforcement_checks, from the scan's own state.
ScansFilter(s) ==
    LET st == scans.job[s]
    IN  /\ st.pc = "start"
        /\ \E hits \in [1..Len(st.schema_map) ->
                            retrieve_relevant_rules(index, max_relevant_rules_per_table)] :
              LET entries == Flatten([t \in 1..Len(st.schema_map) |->
                                 [h \in 1..Len(hits[t]) |->
                                     [rule_id |-> hits[t][h],
                                      matched_table |-> st.schema_map[t].table]]])
              IN  scans' = [scans EXCEPT
                      !.job[s].relevant_rules = entries,
                      !.job[s].pending = Worklist(entries, RuleCache(entries), st.schema_map),
                      !.job[s].pc = "checks"]
        /\ UNCHANGED <<violations, audit_logs>>
        /\ UNCHANGED outsideScans

\* One pass of the innermost loop of node_run_enforcement_checks.
ScansEvalPair(s) ==
    LET st == scans.job[s]
    IN  /\ st.pc = "checks"
        /\ st.pending # << >>
        /\ \E e \in Envs(check_type_of(Head(st.pending).condition)) :
           LET p == Head(st.pending)
               evidence == evaluate_condition_chain(st.server_region, p.condition, e)
           IN  scans' =
                 IF evidence.kind = "raised"
                 THEN [scans EXCEPT !.job[s].errors = Append(st.errors, CheckError(p)),
                                    !.job[s].pending = RestAfterRaise(st.pending)]
                 ELSE IF evidence.kind = "evidence"
                 THEN [scans EXCEPT
                         !.job[s].pending = Tail(st.pending),
                         !.job[s].violations_found = Append(st.violations_found,
                             [table_name |-> p.table, column_name |-> p.column,
                              rule_id |-> p.rule_id,
                              condition_matched |-> evidence.condition_matched,
                              condition_id |-> p.condition.condition_id,
                              check_method |-> evidence.check_method,
                              db_connection_id |-> st.db_connection_id])]
                 ELSE [scans EXCEPT !.job[s].pending = Tail(st.pending)]
        /\ UNCHANGED <<violations, audit_logs>>
        /\ UNCHANGED outsideScans

\* node_run_enforcement_checks returns; node_persist_violations starts.
ScansChecksReturn(s) ==
    LET st == scans.job[s]
    IN  /\ st.pc = "checks"
        /\ st.pending = << >>
        /\ scans' = [scans EXCEPT !.job[s].pc = "persist",
                                  !.job[s].to_persist = st.violations_found]
        /\ UNCHANGED <<violations, audit_logs>>
        /\ UNCHANGED outsideScans

\* The error node_persist_violations appends, in the scan's own list.
ScansPersistError(st, v_data, e) ==
    [kind |-> "persist", table |-> v_data.table_name, column |-> v_data.column_name,
     rule_id |-> v_data.rule_id, e |-> e,
     entry |-> Len(st.violations_found) - Len(st.to_persist) + 1]

\* persist_violation up to its flush, on the scan's own session; the id
\* comes from the table's sequence, which no rollback gives back.
ScansPersistFlush(s, dbOk) ==
    LET st == scans.job[s]
        v_data == Head(st.to_persist)
    IN  /\ st.pc = "persist"
        /\ st.to_persist # << >>
        /\ scans' =
              IF st.session = "active" /\ dbOk
              THEN [scans EXCEPT
                      !.seq = scans.seq + 1,
                      !.job[s].tx = << [table |-> "violations", id |-> scans.seq + 1,
                                        row |-> v_data] >>,
                      !.job[s].pc = "persist_commit"]
              ELSE [scans EXCEPT
                      !.job[s].errors = Append(st.errors,
                          ScansPersistError(st, v_data,
                              IF st.session = "active" THEN "flush" ELSE "session")),
                      !.job[s].session = "deactive",
                      !.job[s].to_persist = RestAfterPersistError(st.to_persist)]
        /\ UNCHANGED <<violations, audit_logs>>
        /\ UNCHANGED outsideScans

\* persist_violation after its flush: the audit record and the commit.
ScansPersistCommit(s, dbOk) ==
    LET st == scans.job[s]
        v == Head(st.tx)
    IN  /\ st.pc = "persist_commit"
        /\ IF dbOk
           THEN /\ violations' = Append(violations, [id |-> v.id, row |-> v.row])
                /\ audit_logs' = insert_rows(audit_logs, << AuditLogFor(v, NoCheckpoint) >>)
                /\ scans' = [scans EXCEPT
                               !.job[s].scan_results = Append(st.scan_results, v.id),
                               !.job[s].to_persist = Tail(st.to_persist),
                               !.job[s].tx = << >>,
                               !.job[s].pc = "persist"]
           ELSE /\ scans' = [scans EXCEPT
                               !.job[s].errors = Append(st.errors,
                                   ScansPersistError(st, v.row, "commit")),
                               !.job[s].session = "deactive",
                               !.job[s].to_persist = RestAfterPersistError(st.to_persist),
                               !.job[s].tx = << >>,
                               !.job[s].pc = "persist"]
                /\ UNCHANGED <<violations, audit_logs>>
        /\ UNCHANGED outsideScans

\* The graph has ended: last_scanned_at is set on the scan's own
\* connection row and committed on the scan's own session.
ScansFinish(s) ==
    LET st == scans.job[s]
    IN  /\ st.pc = "persist"
        /\ st.to_persist = << >>
        /\ scans' = IF st.session = "active"
                    THEN [scans EXCEPT !.job[s].pc = "done",
                                       !.job[s].db_conn = set_last_scanned_at(st.db_conn)]
                    ELSE [scans EXCEPT !.job[s].pc = "raised"]
        /\ UNCHANGED <<violations, audit_logs>>
        /\ UNCHANGED outsideScans

ScansNext ==
    \E s \in ScanIds :
        \/ ScansFilter(s)
        \/ ScansEvalPair(s)
        \/ ScansChecksReturn(s)
        \/ \E dbOk \in BOOLEAN : ScansPersistFlush(s, dbOk)
        \/ \E dbOk \in BOOLEAN : ScansPersistCommit(s, dbOk)
        \/ ScansFinish(s)

ScansSpec == ScansInit /\ [][ScansNext]_vars

\* ------------------------------------------ reconcile_version on its own
MaxScore == 100

Nearests == {None} \cup [rule_id : RuleIds, score : 0..MaxScore]

ReconcileInit ==
    /\ rvNearest \in Nearests
    /\ rvResult = NoResult
    /\ store = NoRows
    /\ index = [r \in RuleIds |-> "NONE"]
    /\ RunIdle
    /\ ScanIdle
    /\ EvalIdle
    /\ MatchIdle
    /\ RaceIdle

ReconcileCall ==
    /\ rvResult = NoResult
    /\ rvResult' = reconcile_version(rvNearest)
    /\ UNCHANGED <<rvNearest, runState, scanVars, evalVars, matchVars, raceVars>>

ReconcileNext == ReconcileCall

ReconcileSpec == ReconcileInit /\ [][ReconcileNext]_vars

\* ============================================================ properties

\* C1: reconcile_version returns 'new' exactly when there is no neighbour
\* or the score is below similarity_mid, 'supersede' exactly when
\* similarity_mid <= score < similarity_high, 'human_review' exactly when
\* score >= similarity_high; for the last two the result carries the
\* neighbour's rule id and score.
C1_Bands ==
    rvResult # NoResult =>
        /\ rvResult.action \in {"new", "supersede", "human_review"}
        /\ rvResult.action = "new" <=>
               (rvNearest = None \/ rvNearest.score < SimilarityMid)
        /\ rvResult.action = "supersede" <=>
               (rvNearest # None /\ SimilarityMid <= rvNearest.score
                                 /\ rvNearest.score < SimilarityHigh)
        /\ rvResult.action = "human_review" <=>
               (rvNearest # None /\ rvNearest.score >= SimilarityHigh)
        /\ rvResult.action \in {"supersede", "human_review"} =>
               /\ rvResult.existing_rule_id = rvNearest.rule_id
               /\ rvResult.score = rvNearest.score

\* A score of exactly similarity_high has been classified.
C1_Witness ==
    /\ rvNearest # None
    /\ rvNearest.score = SimilarityHigh
    /\ rvResult.action = "human_review"

\* C2 (as stated): once supersede_rule has raised between the insert of
\* the new rule and the commit, the new rule is not in the store and no
\* rule is DEPRECATED in favour of it, when the call ends and for the rest
\* of the run.
C2_NoPartialSupersession ==
    /\ (pc = "returned" /\ ret.op = "supersede" /\ ret.result = "raised"
           /\ ret.at \in {"deprecate", "index_deprecate"}) =>
          /\ store[ret.new] = Absent
          /\ ~(store[ret.old].status = "DEPRECATED" /\ store[ret.old].superseded_by = ret.new)
    /\ \A i \in 1..Len(errors) :
          errors[i].e \in {"deprecate", "index_deprecate"} =>
             /\ store[errors[i].rule_id] = Absent
             /\ \A r \in RuleIds : store[r].superseded_by # errors[i].rule_id

\* C3 (as stated): during supersede_rule the similarity index is written
\* only after the commit.
C3_IndexAfterCommit ==
    [][(index' # index /\ cur.action = "supersede") => pc = "sup_committed"]_vars

\* C4 (as stated): among a supersession target and the rules that
\* superseded it, directly or transitively, at most one is ACTIVE.
C4_OneActivePerLineage ==
    LET Step(S) == S \cup {y \in RuleIds : \E x \in S : <<x, y>> \in lineage}
        Lineage(r) == Step(Step(Step(Step({r}))))
    IN  \A r \in RuleIds :
           (\E y \in RuleIds : <<r, y>> \in lineage) =>
              Cardinality({x \in Lineage(r) : store[x].status = "ACTIVE"}) <= 1

\* C5: when supersede_rule has returned the new rule, the store holds the
\* new rule and the old rule is DEPRECATED with superseded_by = new id.
C5_SupersedeLinks ==
    (pc = "returned" /\ ret.op = "supersede" /\ ret.result = "returned") =>
        /\ store[ret.new] # Absent
        /\ store[ret.old].status = "DEPRECATED"
        /\ store[ret.old].superseded_by = ret.new

\* A supersession has just returned its new rule.
C5_Witness ==
    /\ pc = "returned"
    /\ ret.op = "supersede"
    /\ ret.result = "returned"
    /\ ret.old # NoRule

\* C6 (as stated): when insert_rule or supersede_rule has ended, by
\* returning or by raising, each rule it was called for that is in the
\* store has an index entry with the store's status.
C6_IndexMatchesStore ==
    (pc = "returned" /\ ret.op \in {"insert", "supersede"}) =>
        \A r \in {ret.new, ret.old} \ {NoRule} :
           store[r] # Absent => index[r] = store[r].status

\* C7 (as stated): a rule that is DRAFT in the store has no index entry.
C7_DraftNotIndexed ==
    \A r \in RuleIds : store[r].status = "DRAFT" => index[r] = "NONE"

\* C7 (amended): when insert_rule has returned for a human_review rule,
\* the rule is DRAFT in the store, its index entry carries status DRAFT,
\* and the query the scans make does not return it.
C7_DraftIndexedAsDraft ==
    (pc = "returned" /\ ret.op = "insert" /\ ret.action = "human_review"
        /\ ret.result = "returned") =>
        /\ store[ret.new].status = "DRAFT"
        /\ index[ret.new] = "DRAFT"
        /\ \A hits \in retrieve_relevant_rules(index, max_relevant_rules_per_table) :
              \A h \in 1..Len(hits) : hits[h] # ret.new

\* insert_rule has just returned for a human_review rule.
C7_Witness ==
    /\ pc = "returned"
    /\ ret.op = "insert"
    /\ ret.action = "human_review"
    /\ ret.result = "returned"

\* C8 (as stated): the status of a stored rule changes only from DRAFT to
\* ACTIVE, or from ACTIVE to DEPRECATED by a supersession (the row then
\* points forward to its successor).
C8_StatusTransitions ==
    [][\A r \in RuleIds :
          (store[r] # Absent /\ store'[r].status # store[r].status) =>
             \/ store[r].status = "DRAFT" /\ store'[r].status = "ACTIVE"
             \/ /\ store[r].status = "ACTIVE"
                /\ store'[r].status = "DEPRECATED"
                /\ store'[r].superseded_by # NoRule]_vars

\* C9 (as stated): a scan never ends by raising.
C9_ScanNeverRaises == scanPc # "raised"

\* C10: at every point of the check loop and after it, the pairs evaluated
\* so far are a prefix of the scan's (condition, column) pairs and the rest
\* is still to be evaluated; the check errors are one error per pair whose
\* evaluation raised, in order; the violations are one per pair that gave
\* evidence, in order; and the loop ends only when no pair is left.
C10_FailingCheckIsolated ==
    scanPc \in {"checks", "persist", "done"} =>
        LET all == Worklist(relevant_rules, RuleCache(relevant_rules), db_conn.schema_map)
            n == Len(outcomes)
            positions == [i \in 1..n |-> i]
            raised == SelectSeq(positions, LAMBDA i : outcomes[i] = "raised")
            found == SelectSeq(positions, LAMBDA i : outcomes[i] = "evidence")
            check_errors == SelectSeq(scan_errors, LAMBDA x : x.kind = "check")
        IN  /\ n <= Len(all)
            /\ pending = SubSeq(all, n + 1, Len(all))
            /\ check_errors = [j \in 1..Len(raised) |-> CheckError(all[raised[j]])]
            /\ Len(violations_found) = Len(found)
            /\ \A j \in 1..Len(found) :
                  /\ violations_found[j].rule_id = all[found[j]].rule_id
                  /\ violations_found[j].table_name = all[found[j]].table
                  /\ violations_found[j].column_name = all[found[j]].column
                  /\ violations_found[j].condition_id = all[found[j]].condition.condition_id
            /\ scanPc \in {"persist", "done"} => n = Len(all)

\* The check loop has ended after a pair that raised, with a violation
\* found before it and another found after it.
C10_Witness ==
    /\ scanPc = "persist"
    /\ \E i, j, k \in 1..Len(outcomes) :
          /\ i < j /\ j < k
          /\ outcomes[i] = "evidence"
          /\ outcomes[j] = "raised"
          /\ outcomes[k] = "evidence"

\* C11 (as stated): every check whose execution failed (the SQL failed on
\* attempt 1 and, if retried, on the retry; or the sampling of the regex
\* check failed) gave no violation and has an entry in the scan's errors:
\* there are as many check errors as pairs that raised or failed.
C11_ExecutionErrorRecorded ==
    LET n == Len(outcomes)
        failed == {i \in 1..n : outcomes[i] = "failed"}
        raised == {i \in 1..n : outcomes[i] = "raised"}
        check_errors == {j \in 1..Len(scan_errors) : scan_errors[j].kind = "check"}
    IN  /\ Len(violations_found) = Cardinality({i \in 1..n : outcomes[i] = "evidence"})
        /\ Cardinality(check_errors) = Cardinality(failed) + Cardinality(raised)

\* The evaluate_condition_chain call has returned or raised.
EvalDone == evOut # << >>

\* C12: a check executes its query at most twice and asks the oracle for
\* at most one rewrite; the rewrite is asked only after attempt 1 failed;
\* a second execution runs only the rewritten SQL, after a rewrite that
\* changed it; and a strategy other than the SQL check makes at most one
\* call.
C12_OneRewriteRetry ==
    EvalDone =>
        LET calls == evOut.calls
            executions == {i \in 1..Len(calls) : calls[i] \in {"execute", "execute_rewritten"}}
            rewrites == {i \in 1..Len(calls) : calls[i] = "rewrite"}
        IN  /\ Cardinality(executions) <= 2
            /\ Cardinality(rewrites) <= 1
            /\ \A i \in rewrites :
                  i = 2 /\ calls[1] = "execute" /\ evIn.e.first = "error"
            /\ \A i \in executions :
                  i > 1 => /\ calls[i] = "execute_rewritten"
                           /\ calls[i - 1] = "rewrite"
                           /\ evIn.e.rewrite = "changed"
            /\ calls # << >> /\ calls[1] = "execute" => evOut.strategy = "sql"
            /\ evOut.strategy # "sql" => Len(calls) <= 1

\* A SQL check whose attempt 1 failed, was rewritten and retried.
C12_Witness ==
    /\ EvalDone
    /\ evOut.strategy = "sql"
    /\ evOut.calls = << "execute", "rewrite", "execute_rewritten" >>

\* C13 (as stated): the LLM-fallback check returns a violation exactly
\* when the oracle answered is_violation with a confidence (as the oracle
\* reported it, in ten-thousandths) at or above the threshold; below the
\* threshold it returns none.
C13_ConfidenceGate ==
    EvalDone /\ evOut.strategy = "llm_fallback" =>
        (evOut.kind = "evidence" <=>
            /\ evIn.e.llm_ok
            /\ evIn.e.is_violation
            /\ evIn.e.confidence >= 10 * LlmFallbackConfidenceThreshold)

\* C14: a regex check whose sampling worked, with n non-null samples of
\* which m match, is triggered exactly when n >= 1 and 2*m >= n; the null
\* samples count in neither n nor m.
C14_RegexThresholdInclusive ==
    EvalDone /\ evOut.strategy = "regex" /\ evIn.e.fetch_ok =>
        LET sampled == evIn.e.samples
            n == Cardinality({i \in 1..Len(sampled) : sampled[i] # "null"})
            m == Cardinality({i \in 1..Len(sampled) : sampled[i] = "match"})
        IN  evOut.kind = "evidence" <=> (n >= 1 /\ 2 * m >= n)

\* A regex check triggered on samples with a null among them and exactly
\* half of the others matching.
C14_Witness ==
    /\ EvalDone
    /\ evOut.strategy = "regex"
    /\ evOut.kind = "evidence"
    /\ evIn.e.fetch_ok
    /\ \E i \in 1..Len(evIn.e.samples) : evIn.e.samples[i] = "null"
    /\ LET sampled == evIn.e.samples
           n == Cardinality({i \in 1..Len(sampled) : sampled[i] # "null"})
           m == Cardinality({i \in 1..Len(sampled) : sampled[i] = "match"})
       IN  n >= 1 /\ 2 * m = n

\* C15: when the classification oracle fails, the LLM-fallback check gives
\* is_violation false with confidence 0; when the rewrite oracle fails, the
\* SQL check ends without a second execution; in both cases the evaluator
\* returns no violation and does not raise.
C15_OracleErrorsFailClosed ==
    EvalDone /\ ~evIn.e.raises =>
        /\ check_type_of(evIn.condition) = "llm_fallback" /\ ~evIn.e.llm_ok =>
              /\ llm_fallback_classify(evIn.e).is_violation = FALSE
              /\ llm_fallback_classify(evIn.e).confidence = 0
              /\ evOut.strategy = "llm_fallback"
              /\ evOut.kind = "none"
        /\ evOut.strategy = "sql" /\ evIn.e.first = "error" /\ evIn.e.rewrite = "raises" =>
              /\ evOut.calls = << "execute", "rewrite" >>
              /\ evOut.kind = "none"

\* An LLM-fallback check whose oracle call failed has returned.
C15_Witness ==
    /\ EvalDone
    /\ evOut.strategy = "llm_fallback"
    /\ ~evIn.e.llm_ok
    /\ evOut.kind = "none"

\* C16 (as stated): every call that returns has executed exactly one of
\* the four strategies, the one its check_type names, and has asked the
\* classification oracle only if the check_type is llm_fallback.
C16_StrictDispatch ==
    EvalDone /\ ~evIn.e.raises =>
        /\ evOut.strategy \in CheckTypes
        /\ evIn.condition.check_type \in CheckTypes =>
              evOut.strategy = evIn.condition.check_type
        /\ (\E i \in 1..Len(evOut.calls) : evOut.calls[i] = "classify") =>
              evIn.condition.check_type = "llm_fallback"

C18_NoViolationWithoutAudit ==
    /\ \A i \in 1..Len(violations) :
          Cardinality({j \in 1..Len(audit_logs) :
                          /\ audit_logs[j].event_type = "VIOLATION_DETECTED"
                          /\ audit_logs[j].entity_type = "violation"
                          /\ audit_logs[j].entity_id = violations[i].id
                          /\ audit_logs[j].langgraph_checkpoint_id = langgraph_checkpoint_id})
          = 1
    /\ \A i, k \in 1..Len(violations) : violations[i].id = violations[k].id => i = k
    /\ Cardinality({j \in 1..Len(audit_logs) :
                        audit_logs[j].event_type = "VIOLATION_DETECTED"}) = Len(violations)
    /\ \A t \in 1..Len(scanTx) :
          \A i \in 1..Len(violations) : violations[i].id # scanTx[t].id

\* A scan started with a checkpoint id has committed a violation and has
\* flushed, not yet committed, the next one.
C18_Witness ==
    /\ scanPc = "persist_commit"
    /\ langgraph_checkpoint_id = "thread-1"
    /\ Len(violations) >= 1
    /\ scanTx # << >>

\* C19: during and after the persist stage, the violations gone through
\* are a prefix of violations_found and the rest is still to go; each one
\* gone through has either its id in scan_results or a persist error, never
\* both; the committed violations are those without an error, once each,
\* in the order of violations_found.
C19_PersistExactlyOnce ==
    scanPc \in {"persist", "persist_commit", "done"} =>
        LET total == Len(violations_found)
            n == total - Len(to_persist)
            failed == {scan_errors[j].entry :
                          j \in {k \in 1..Len(scan_errors) : scan_errors[k].kind = "persist"}}
            persist_errors == {j \in 1..Len(scan_errors) : scan_errors[j].kind = "persist"}
            written == SelectSeq([i \in 1..n |-> i], LAMBDA i : i \notin failed)
        IN  /\ n >= 0
            /\ to_persist = SubSeq(violations_found, n + 1, total)
            /\ Len(scan_results) + Cardinality(persist_errors) = n
            /\ Cardinality(failed) = Cardinality(persist_errors)
            /\ failed \subseteq 1..n
            /\ Len(violations) = Len(written)
            /\ Len(scan_results) = Len(written)
            /\ \A j \in 1..Len(written) :
                  /\ violations[j].row = violations_found[written[j]]
                  /\ violations[j].id = scan_results[j]
            /\ scanPc = "done" => n = total

\* The persist loop has ended after three violations, one of which it
\* persisted and another of which it could not.
C19_Witness ==
    /\ scanPc = "persist"
    /\ to_persist = << >>
    /\ Len(violations_found) >= 3
    /\ Len(scan_results) >= 1
    /\ \E j \in 1..Len(scan_errors) : scan_errors[j].kind = "persist"

\* C20 (as stated): a violation is left unpersisted only by the failure of
\* its own write; the failure of another violation's write, before it in
\* the list, never keeps it from being persisted.
C20_FailuresPerViolation ==
    \A j \in 1..Len(scan_errors) :
        scan_errors[j].kind = "persist" => scan_errors[j].e \in {"flush", "commit"}

\* C21 (as stated): in an ingestion run every error is the failure of the
\* rule's own persistence; no rule is refused because the persistence of
\* an earlier rule of the batch failed.
C21_RuleFailureIsolated ==
    /\ \A i \in 1..Len(errors) : errors[i].e # "session"
    /\ (pc = "returned" /\ ret.result = "raised") => ret.at # "session"

\* C22 (as stated): when supersede_rule has failed with an integrity error
\* (it rolled back and returned None), node_persist_rules records an error
\* for the rule and does not list it among the persisted rule ids.
C22_IntegrityErrorReported ==
    [][(pc = "returned" /\ ret.op = "supersede" /\ ret.result = "returned_none"
           /\ pc' = "persist") =>
          /\ persisted_ids' = persisted_ids
          /\ Len(errors') = Len(errors) + 1
          /\ errors'[Len(errors')].rule_id = ret.new]_vars

\* C28: no step takes a rule out of the store or a point out of the
\* index; a point whose status becomes DEPRECATED stays in the index.
C28_NeverDeleted ==
    [][\A r \in RuleIds :
          /\ store[r] # Absent => store'[r] # Absent
          /\ index[r] # "NONE" => index'[r] # "NONE"]_vars

\* A supersession is committed: the old rule is DEPRECATED in the store,
\* and its point, still in the index, is DEPRECATED too.
C28_Witness ==
    \E r \in RuleIds :
        /\ store[r].status = "DEPRECATED"
        /\ store[r].superseded_by # NoRule
        /\ index[r] = "DEPRECATED"

\* C30 (as stated): for every committed supersession, the version of the
\* new rule is strictly greater than the version of the rule it supersedes.
C30_VersionIncreases ==
    \A link \in lineage :
        (store[link[1]] # Absent /\ store[link[2]] # Absent) =>
            store[link[2]].version > store[link[1]].version

\* C29 (as stated): no step changes the rule text of a stored rule whose
\* status is ACTIVE.
C29_ImmutableOnceActive ==
    [][\A r \in RuleIds :
          store[r].status = "ACTIVE" => store'[r].rule_text = store[r].rule_text]_vars

\* C25: every call of check_schema_map_match returns, once each, exactly
\* the (table, column) pairs of the schema map whose compliance category
\* contains the data category as a substring when case is ignored (none
\* when no column qualifies), and a second call on the same inputs returns
\* the same.
C25_SchemaMatchExact ==
    \A k \in 1..Len(mtOut) :
        LET schema_map == mtIn.schema_map
            wanted == mtIn.condition.data_category
            Fold(ch) == lower(<< ch >>)[1]
            Contains(cat) ==
                \E off \in 0..(Len(cat) - Len(wanted)) :
                    \A i \in 1..Len(wanted) : Fold(cat[off + i]) = Fold(wanted[i])
            qualifying ==
                {<<t, c>> \in (1..Len(schema_map)) \X (1..MaxColumns + 1) :
                    /\ c <= Len(schema_map[t].columns)
                    /\ Contains(schema_map[t].columns[c].compliance_category)}
            returned == mtOut[k]
        IN  /\ Len(returned) = Cardinality(qualifying)
            /\ \A p \in qualifying :
                  \E j \in 1..Len(returned) :
                     /\ returned[j].table = schema_map[p[1]].table
                     /\ returned[j].column = schema_map[p[1]].columns[p[2]].column
            /\ \A i, j \in 1..Len(returned) :
                  (returned[i].table = returned[j].table
                     /\ returned[i].column = returned[j].column) => i = j
            /\ mtOut[k] = mtOut[1]

\* Two calls have returned for data category "PII" on a schema map that
\* has a PII_contact column, a PII_gov_id column and a column of another
\* category: the two PII columns and only they.
C25_Witness ==
    /\ Len(mtOut) = 2
    /\ mtIn.condition.data_category = S_PII
    /\ Len(mtIn.schema_map) = 2
    /\ {mtOut[2][j].category : j \in 1..Len(mtOut[2])} = {S_PII_contact, S_PII_gov_id}
    /\ \E t \in 1..2 : \E c \in 1..Len(mtIn.schema_map[t].columns) :
          mtIn.schema_map[t].columns[c].compliance_category = S_Financial

\* C27: when the template's first execution fails and the rewritten SQL
\* then succeeds with rows, the evidence returned has the raw content of a
\* first-attempt success (the rows) and, in addition, the rewrite reason.
C27_RewriteReasonCarried ==
    (/\ EvalDone
     /\ evOut.strategy = "sql"
     /\ evOut.calls = << "execute", "rewrite", "execute_rewritten" >>
     /\ evOut.kind = "evidence") =>
        /\ evOut.check_method = "sql"
        /\ evOut.raw = {"rows", "rewrite_reason"}

\* C24: when a triggered scan has finished with no persisted violation
\* and a non-empty error list, its thread is FAILED and its error_detail
\* holds errors of the scan.
C24_ZeroViolationsWithErrorsFailed ==
    (/\ langgraph_checkpoint_id # NoCheckpoint
     /\ scanPc \in {"done", "failed", "escaped"}
     /\ scan_results = << >>
     /\ scan_errors # << >>) =>
        /\ thread.status = "FAILED"
        /\ thread.error_detail.kind = "errors"
        /\ thread.error_detail.errors # << >>
        /\ Range(thread.error_detail.errors) \subseteq Range(scan_errors)

\* C26: the scan goes through its stages in the order FILTER_RELEVANT,
\* RUN_CHECKS, PERSIST, DONE: every step stays in its stage or moves to the
\* next one (or ends the scan by raising), so no stage is skipped,
\* re-entered or retried; the relevant rules change only while filtering;
\* a check is evaluated only in RUN_CHECKS, after filtering; a violation is
\* flushed or committed only in PERSIST, after every check has finished.
C26_LinearStages ==
    [][LET Stage(p) == CASE p = "start" -> 1
                         [] p \in {"fetch", "checks"} -> 2
                         [] p \in {"persist", "persist_commit"} -> 3
                         [] OTHER -> 4
       IN  /\ \/ Stage(scanPc') \in {Stage(scanPc), Stage(scanPc) + 1}
              \/ scanPc' = "raised"
           /\ relevant_rules' # relevant_rules => Stage(scanPc) = 1
           /\ (outcomes' # outcomes \/ violations_found' # violations_found) =>
                 /\ Stage(scanPc) = 2
                 /\ Stage(scanPc') = 2
                 /\ relevant_rules' = relevant_rules
           /\ (violations' # violations \/ scanTx' # scanTx
                 \/ scan_results' # scan_results \/ to_persist' # to_persist) =>
                 /\ Stage(scanPc) \in {2, 3}
                 /\ Stage(scanPc') = 3
                 /\ pending = << >>
                 /\ violations_found' = violations_found
                 /\ outcomes' = outcomes]_vars

\* A scan has gone through every stage: it filtered relevant rules,
\* evaluated checks, persisted a violation and is done.
C26_Witness ==
    /\ scanPc = "done"
    /\ relevant_rules # << >>
    /\ outcomes # << >>
    /\ violations # << >>
    /\ scan_results # << >>

\* C23: the audit log is append-only: in every step the log is at least
\* as long as before and every record it had is still there, at the same
\* place and identical.
C23_AuditLogAppendOnly ==
    [][/\ Len(audit_logs') >= Len(audit_logs)
       /\ \A i \in 1..Len(audit_logs) : audit_logs'[i] = audit_logs[i]]_vars

\* The log holds the record of the scan's start, of a detected violation
\* and of the scan's completion, written in that order by three commits.
C23_Witness ==
    /\ Len(audit_logs) >= 3
    /\ audit_logs[1].event_type = "SCAN_STARTED"
    /\ audit_logs[2].event_type = "VIOLATION_DETECTED"
    /\ audit_logs[Len(audit_logs)].event_type = "SCAN_COMPLETED"

\* C34: every violation a scan has found or committed is for a rule whose
\* status in the store is ACTIVE (the store is not written during a scan,
\* so this is its status when the rule was evaluated).
C34_OnlyActiveRulesFlagged ==
    /\ \A i \in 1..Len(violations_found) :
          store[violations_found[i].rule_id].status = "ACTIVE"
    /\ \A i \in 1..Len(violations) :
          store[violations[i].row.rule_id].status = "ACTIVE"

\* C33: every pair waiting to be evaluated is on a column of the table its
\* rule was matched against, and no two violations found by one scan are
\* for the same rule, condition, table and column.
C33_EvaluatedOncePerColumn ==
    /\ \A i \in 1..Len(pending) : pending[i].table = pending[i].matched_table
    /\ \A i, j \in 1..Len(violations_found) :
          (/\ violations_found[i].rule_id = violations_found[j].rule_id
           /\ violations_found[i].condition_id = violations_found[j].condition_id
           /\ violations_found[i].table_name = violations_found[j].table_name
           /\ violations_found[i].column_name = violations_found[j].column_name) => i = j

\* C36: when an ingestion run has finished, every rule the run committed
\* to the store is in persisted_ids, and no rule that has an entry in
\* errors was committed by the run.
C36_ReportMatchesStore ==
    pc = "finished" =>
        /\ run_committed \subseteq Range(persisted_ids)
        /\ \A i \in 1..Len(errors) : errors[i].rule_id \notin run_committed

\* C35: the index is never ahead of the store: every rule that has a point
\* in the index is committed in the store, in every state of the lifecycle
\* (the point of a new rule is written only after the commit of its row).
C35_IndexNotAhead ==
    \A r \in RuleIds : index[r] # "NONE" => store[r] # Absent

\* supersede_rule has returned the new rule: its row is committed and its
\* point is in the index, as is the point of the rule it replaced.
C35_Witness ==
    /\ pc = "returned"
    /\ ret.op = "supersede"
    /\ ret.result = "returned"
    /\ index[ret.new] = "ACTIVE"
    /\ store[ret.new].status = "ACTIVE"
    /\ index[ret.old] = "DEPRECATED"

C31_CancelIsObserved ==
    [][thread.status = "CANCELLED" =>
          /\ thread'.status = "CANCELLED"
          /\ outcomes' = outcomes
          /\ violations_found' = violations_found
          /\ scanTx' = scanTx
          /\ violations' = violations]_vars

\* C37: when both runs have decided to supersede the same existing rule,
\* at most one supersession of that rule is ever committed, and at most
\* one of the two new rules is ACTIVE as its committed successor.
C37_AtMostOneSupersedes ==
    \A old \in RuleIds :
        (\A p \in RaceRuns : race[p].action = "supersede"
                               /\ race[p].existing_rule_id = old) =>
            /\ Cardinality({link \in lineage : link[1] = old}) <= 1
            /\ Cardinality({p \in RaceRuns :
                              /\ <<old, race[p].rule_id>> \in lineage
                              /\ store[race[p].rule_id].status = "ACTIVE"}) <= 1

\* The (table, column) pairs of a schema map.
ColumnsOfMap(schema_map) ==
    UNION { {<<schema_map[t].table, schema_map[t].columns[c].column>> :
                c \in 1..Len(schema_map[t].columns)} : t \in 1..Len(schema_map) }

\* C38: under any interleaving of two scans of different databases, every
\* violation in the table carries the connection id of the scan that
\* persisted it and a table and column of that connection's schema map, and
\* each scan's violations_found, scan_results and errors hold only entries
\* of its own connection.
C38_ScansDoNotInterfere ==
    /\ \A i \in 1..Len(violations) :
          \E s \in ScanIds :
              /\ violations[i].row.db_connection_id = ConnOf(s).id
              /\ <<violations[i].row.table_name, violations[i].row.column_name>>
                     \in ColumnsOfMap(ConnOf(s).schema_map)
              /\ \/ violations[i].id \in Range(scans.job[s].scan_results)
                 \/ scans.job[s].pc = "persist_commit"
    /\ \A s \in ScanIds :
          LET st == scans.job[s]
              own == ColumnsOfMap(ConnOf(s).schema_map)
          IN  /\ \A i \in 1..Len(st.violations_found) :
                    /\ st.violations_found[i].db_connection_id = ConnOf(s).id
                    /\ <<st.violations_found[i].table_name,
                         st.violations_found[i].column_name>> \in own
              /\ \A i \in 1..Len(st.scan_results) :
                    \E j \in 1..Len(violations) :
                        /\ violations[j].id = st.scan_results[i]
                        /\ violations[j].row.db_connection_id = ConnOf(s).id
              /\ \A i \in 1..Len(st.errors) :
                    /\ st.errors[i].table \in {tc[1] : tc \in own}
                    /\ st.errors[i].column \in {tc[2] : tc \in own}
              /\ \A t \in ScanIds \ {s} :
                    Range(st.scan_results) \cap Range(scans.job[t].scan_results) = {}

\* Both scans have persisted a violation, their commits interleaved, and
\* one of them has an error of its own.
C38_Witness ==
    /\ Len(violations) >= 3
    /\ violations[1].row.db_connection_id # violations[2].row.db_connection_id
    /\ violations[2].row.db_connection_id # violations[3].row.db_connection_id
    /\ \E s \in ScanIds : scans.job[s].errors # << >>
    /\ \A s \in ScanIds : scans.job[s].pc = "done"

====
